---- MODULE Spec2Model ----
(***************************************************************************)
(* A model of the PawQL query builder (QueryBuilder), of the adapter it    *)
(* executes against (DummyAdapter) and of the PostgresAdapter transaction  *)
(* scope.                                                                  *)
(*                                                                         *)
(* Strings that the code inspects or concatenates (identifiers, SQL text)  *)
(* are sequences of atoms: an atom is one of the characters the code looks *)
(* at (space, parenthesis, double quote, dot, star) or a run of other      *)
(* characters.  The SQL text of toSQL() is the concatenation of the atoms  *)
(* the template literals produce, spaces included.                         *)
(***************************************************************************)
EXTENDS Integers, Sequences, FiniteSets, TLC

VARIABLES
    _table,      \* QueryBuilder._table (an identifier)
    _operation,  \* QueryBuilder._operation
    _data,       \* QueryBuilder._data
    _select,     \* QueryBuilder._select
    _where,      \* QueryBuilder._where
    _joins,      \* QueryBuilder._joins
    _limit,      \* QueryBuilder._limit   (<<>> is undefined, <<n>> is n)
    _offset,     \* QueryBuilder._offset  (<<>> is undefined, <<n>> is n)
    _returning,  \* QueryBuilder._returning
    call,        \* the most recent call on the builder: its name and argument
    ret,         \* what the most recent call on the builder returned or threw
    logs,        \* DummyAdapter._logs of the builder's adapter
    calls,       \* number of calls made so far that changed builder or adapter
    adapter,     \* class of the adapter transaction() is called on
    pc,          \* per transaction() call: where its async body stands
    client,      \* per transaction() call: the local `client` (0: not acquired)
    checkedOut,  \* the pool: connections handed out and not yet released
    clientLog,   \* per transaction() call: the calls made on its `client`, in order
    cbState,     \* per transaction() call: how far its callback got
    error,       \* per transaction() call: the `error` of the catch block
    nested,      \* per transaction() call: the trx.transaction() call of its callback
    outcome,     \* per transaction() call: how the returned promise settled
    other,       \* a second QueryBuilder over the same adapter: its fields, last call, result
    pooled       \* the pool-backed PostgresAdapter: its `client` field (0: null) and the
                 \* query() calls made on it

builderVars == <<_table, _operation, _data, _select, _where, _joins,
                 _limit, _offset, _returning>>

txVars == <<adapter, pc, client, checkedOut, clientLog, cbState, error,
            nested, outcome, pooled>>

-----------------------------------------------------------------------------
(* Bounds *)

MaxCalls == 2
NumTx == 2
NumConns == 2
MaxQueries == 1

-----------------------------------------------------------------------------
(* JavaScript values *)

Null == [kind |-> "null"]
Undefined == [kind |-> "undefined"]
Scalar(s) == [kind |-> "scalar", s |-> s]
DateVal(s) == [kind |-> "date", s |-> s]
Arr(items) == [kind |-> "array", items |-> items]
\* a plain object: its own properties in insertion order
Obj(entries) == [kind |-> "object", entries |-> entries]
Prop(k, v) == [key |-> k, val |-> v]

\* `key in obj`
HasKey(entries, k) == \E i \in 1..Len(entries) : entries[i].key = k

\* obj[key], undefined when the key is absent
Get(entries, k) ==
    IF HasKey(entries, k)
    THEN entries[CHOOSE i \in 1..Len(entries) : entries[i].key = k].val
    ELSE Undefined

\* Object.keys(obj)
Keys(entries) == [i \in 1..Len(entries) |-> entries[i].key]

-----------------------------------------------------------------------------
(* Strings as sequences of atoms *)

Q == "\""

Includes(str, atom) == \E i \in 1..Len(str) : str[i] = atom

StartsWith(str, atom) == Len(str) > 0 /\ str[1] = atom

\* Array.prototype.join
RECURSIVE Join(_, _)
Join(strs, sep) ==
    IF Len(strs) = 0 THEN <<>>
    ELSE IF Len(strs) = 1 THEN strs[1]
    ELSE strs[1] \o sep \o Join(Tail(strs), sep)

\* String.prototype.split on a one-character separator
RECURSIVE SplitFrom(_, _, _)
SplitFrom(str, sep, cur) ==
    IF Len(str) = 0 THEN <<cur>>
    ELSE IF str[1] = sep THEN <<cur>> \o SplitFrom(Tail(str), sep, <<>>)
    ELSE SplitFrom(Tail(str), sep, Append(cur, str[1]))

Split(str, sep) == SplitFrom(str, sep, <<>>)

\* `$${values.length}`
Placeholder(n) == "$" \o ToString(n)

-----------------------------------------------------------------------------
(* QueryBuilder._quote *)

\* _quote without the test for a leading double quote
_quoteAlways(identifier) ==
    IF identifier = <<"*">> THEN identifier
    ELSE IF Includes(identifier, "(") \/ Includes(identifier, " ")
    THEN identifier
    ELSE IF Includes(identifier, ".")
    THEN LET parts == Split(identifier, ".")
         IN  Join([i \in 1..Len(parts) |-> <<Q>> \o parts[i] \o <<Q>>], <<".">>)
    ELSE <<Q>> \o identifier \o <<Q>>

\* _quote wrapping a dotted identifier as a whole
_quoteUnsplit(identifier) ==
    IF identifier = <<"*">> THEN identifier
    ELSE IF Includes(identifier, "(") \/ Includes(identifier, " ")
            \/ StartsWith(identifier, Q)
    THEN identifier
    ELSE <<Q>> \o identifier \o <<Q>>

_quote(identifier) ==
    IF identifier = <<"*">> THEN identifier
    ELSE IF Includes(identifier, "(") \/ Includes(identifier, " ")
            \/ StartsWith(identifier, Q)
    THEN identifier
    ELSE IF Includes(identifier, ".")
    THEN LET parts == Split(identifier, ".")
         IN  Join([i \in 1..Len(parts) |-> <<Q>> \o parts[i] \o <<Q>>], <<".">>)
    ELSE <<Q>> \o identifier \o <<Q>>

-----------------------------------------------------------------------------
(* QueryBuilder._addWhere *)

Clause(type, column, operator, value) ==
    [type |-> type, column |-> column, operator |-> operator, value |-> value]

\* the `if ("<key>" in ops)` statements, in source order
OperatorKeys ==
    << <<"in", "IN">>, <<"notIn", "NOT IN">>, <<"like", "LIKE">>,
       <<"ilike", "ILIKE">>, <<"gt", ">">>, <<"lt", "<">>, <<"gte", ">=">>,
       <<"lte", "<=">>, <<"not", "!=">> >>

\* own properties of a value reached by `in`: an array has none of the
\* operator keys
OwnProps(val) == IF val.kind = "object" THEN val.entries ELSE <<>>

\* PushOperators taking the keys in the order the caller wrote them
RECURSIVE PushOperatorsAsWritten(_, _, _, _, _)
PushOperatorsAsWritten(where, type, column, ops, i) ==
    IF i > Len(ops) THEN where
    ELSE IF \E k \in 1..Len(OperatorKeys) : OperatorKeys[k][1] = ops[i].key
    THEN LET k == CHOOSE k \in 1..Len(OperatorKeys) : OperatorKeys[k][1] = ops[i].key
         IN  PushOperatorsAsWritten(
                 Append(where, Clause(type, column, OperatorKeys[k][2], ops[i].val)),
                 type, column, ops, i + 1)
    ELSE PushOperatorsAsWritten(where, type, column, ops, i + 1)

RECURSIVE PushOperators(_, _, _, _, _)
PushOperators(where, type, column, ops, i) ==
    IF i > Len(OperatorKeys) THEN where
    ELSE IF HasKey(ops, OperatorKeys[i][1])
    THEN PushOperators(
             Append(where, Clause(type, column, OperatorKeys[i][2],
                                  Get(ops, OperatorKeys[i][1]))),
             type, column, ops, i + 1)
    ELSE PushOperators(where, type, column, ops, i + 1)

\* AddWhereEntry with null compared by `=` like any other value
AddWhereEntryNullEquals(where, type, key, val) ==
    IF val.kind \in {"object", "array"}
    THEN PushOperators(where, type, key, OwnProps(val), 1)
    ELSE Append(where, Clause(type, key, "=", val))

\* the body of the loop over Object.entries(conditions)
AddWhereEntry(where, type, key, val) ==
    IF val.kind = "null"
    THEN Append(where, Clause(type, key, "IS", Null))
    ELSE IF val.kind \in {"object", "array"}
    THEN PushOperators(where, type, key, OwnProps(val), 1)
    ELSE Append(where, Clause(type, key, "=", val))

RECURSIVE _addWhere(_, _, _)
_addWhere(where, type, conditions) ==
    IF Len(conditions) = 0 THEN where
    ELSE _addWhere(AddWhereEntry(where, type, conditions[1].key, conditions[1].val),
                   type, Tail(conditions))

-----------------------------------------------------------------------------
(* QueryBuilder.toSQL *)

\* the operator as it appears in the text
OperatorText(op) ==
    IF op = "NOT IN" THEN <<"NOT", " ", "IN">>
    ELSE IF op = "IS NOT" THEN <<"IS", " ", "NOT">>
    ELSE <<op>>

\* String(value)
StringOf(v) ==
    IF v.kind \in {"scalar", "date"} THEN <<v.s>>
    ELSE IF v.kind = "undefined" THEN <<"undefined">>
    ELSE IF v.kind = "null" THEN <<"null">>
    ELSE <<"[object Object]">>

\* clause.value.map(v => { values.push(v); return `$${values.length}` })
RECURSIVE PushAll(_, _)
PushAll(items, values) ==
    IF Len(items) = 0 THEN [placeholders |-> <<>>, values |-> values]
    ELSE LET pushed == Append(values, items[1])
             rest == PushAll(Tail(items), pushed)
         IN  [placeholders |-> <<<<Placeholder(Len(pushed))>>>> \o rest.placeholders,
              values |-> rest.values]

\* Condition with an IS clause that pushes its value onto values
ConditionBindingNull(clause, values) ==
    LET col == _quote(clause.column)
    IN  IF clause.operator \in {"IN", "NOT IN"}
        THEN IF clause.value.kind = "array" /\ Len(clause.value.items) > 0
             THEN LET p == PushAll(clause.value.items, values)
                  IN  [text |-> col \o <<" ">> \o OperatorText(clause.operator)
                                \o <<" ", "(">> \o Join(p.placeholders, <<",", " ">>)
                                \o <<")">>,
                       values |-> p.values]
             ELSE [text |-> IF clause.operator = "IN" THEN <<"1=0">> ELSE <<"1=1">>,
                   values |-> values]
        ELSE IF clause.operator \in {"IS", "IS NOT"}
        THEN [text |-> col \o <<" ">> \o OperatorText(clause.operator) \o <<" ">>
                       \o (IF clause.value.kind = "null" THEN <<"NULL">>
                           ELSE StringOf(clause.value)),
              values |-> Append(values, clause.value)]
        ELSE LET pushed == Append(values, clause.value)
             IN  [text |-> col \o <<" ">> \o OperatorText(clause.operator)
                           \o <<" ", Placeholder(Len(pushed))>>,
                  values |-> pushed]

\* Condition with an empty IN / NOT IN list rendered as an empty list
ConditionEmptyList(clause, values) ==
    LET col == _quote(clause.column)
    IN  IF clause.operator \in {"IN", "NOT IN"}
        THEN LET items == IF clause.value.kind = "array" THEN clause.value.items ELSE <<>>
                 p == PushAll(items, values)
             IN  [text |-> col \o <<" ">> \o OperatorText(clause.operator)
                           \o <<" ", "(">> \o Join(p.placeholders, <<",", " ">>)
                           \o <<")">>,
                  values |-> p.values]
        ELSE IF clause.operator \in {"IS", "IS NOT"}
        THEN [text |-> col \o <<" ">> \o OperatorText(clause.operator) \o <<" ">>
                       \o (IF clause.value.kind = "null" THEN <<"NULL">>
                           ELSE StringOf(clause.value)),
              values |-> values]
        ELSE LET pushed == Append(values, clause.value)
             IN  [text |-> col \o <<" ">> \o OperatorText(clause.operator)
                           \o <<" ", Placeholder(Len(pushed))>>,
                  values |-> pushed]

\* the callback of this._where.map in buildWhere, without the connective
Condition(clause, values) ==
    LET col == _quote(clause.column)
    IN  IF clause.operator \in {"IN", "NOT IN"}
        THEN IF clause.value.kind = "array" /\ Len(clause.value.items) > 0
             THEN LET p == PushAll(clause.value.items, values)
                  IN  [text |-> col \o <<" ">> \o OperatorText(clause.operator)
                                \o <<" ", "(">> \o Join(p.placeholders, <<",", " ">>)
                                \o <<")">>,
                       values |-> p.values]
             ELSE [text |-> IF clause.operator = "IN" THEN <<"1=0">> ELSE <<"1=1">>,
                   values |-> values]
        ELSE IF clause.operator \in {"IS", "IS NOT"}
        THEN [text |-> col \o <<" ">> \o OperatorText(clause.operator) \o <<" ">>
                       \o (IF clause.value.kind = "null" THEN <<"NULL">>
                           ELSE StringOf(clause.value)),
              values |-> values]
        ELSE LET pushed == Append(values, clause.value)
             IN  [text |-> col \o <<" ">> \o OperatorText(clause.operator)
                           \o <<" ", Placeholder(Len(pushed))>>,
                  values |-> pushed]

\* this._where.map((clause, index) => ...), index counted from 1
\* MapClauses prefixing every clause, the first one too, with its connective
RECURSIVE MapClausesAllPrefixed(_, _, _)
MapClausesAllPrefixed(where, index, values) ==
    IF index > Len(where) THEN [clauses |-> <<>>, values |-> values]
    ELSE LET c == Condition(where[index], values)
             text == <<where[index].type, " ">> \o c.text
             rest == MapClausesAllPrefixed(where, index + 1, c.values)
         IN  [clauses |-> <<text>> \o rest.clauses, values |-> rest.values]

RECURSIVE MapClauses(_, _, _)
MapClauses(where, index, values) ==
    IF index > Len(where) THEN [clauses |-> <<>>, values |-> values]
    ELSE LET c == Condition(where[index], values)
             text == IF index = 1 THEN c.text
                     ELSE <<where[index].type, " ">> \o c.text
             rest == MapClauses(where, index + 1, c.values)
         IN  [clauses |-> <<text>> \o rest.clauses, values |-> rest.values]

buildWhere(where, values) ==
    IF Len(where) = 0 THEN [text |-> <<>>, values |-> values]
    ELSE LET m == MapClauses(where, 1, values)
         IN  [text |-> <<" ", "WHERE", " ">> \o Join(m.clauses, <<" ">>),
              values |-> m.values]

JoinText(j) ==
    <<j.type, " ", "JOIN", " ">> \o _quote(j.table) \o <<" ", "ON", " ">>
    \o _quote(j.on.col1) \o <<" ", j.on.op, " ">> \o _quote(j.on.col2)

buildJoins(joins) ==
    IF Len(joins) = 0 THEN <<>>
    ELSE <<" ">> \o Join([i \in 1..Len(joins) |-> JoinText(joins[i])], <<" ">>)

SqlResult(sql, values) == [kind |-> "sql", sql |-> sql, values |-> values]
Thrown(msg) == [kind |-> "error", msg |-> msg]

\* keys.forEach(key => { values.push(row[key]); rowPlaceholders.push(...) })
RECURSIVE PushRow(_, _, _)
PushRow(row, keys, values) ==
    IF Len(keys) = 0 THEN [placeholders |-> <<>>, values |-> values]
    ELSE LET pushed == Append(values, Get(OwnProps(row), keys[1]))
             rest == PushRow(row, Tail(keys), pushed)
         IN  [placeholders |-> <<<<Placeholder(Len(pushed))>>>> \o rest.placeholders,
              values |-> rest.values]

\* PushRows with each record contributing its own keys
RECURSIVE PushRowsOwnKeys(_, _, _)
PushRowsOwnKeys(dataIn, keys, values) ==
    IF Len(dataIn) = 0 THEN [placeHolders |-> <<>>, values |-> values]
    ELSE LET r == PushRow(dataIn[1], Keys(OwnProps(dataIn[1])), values)
             rest == PushRowsOwnKeys(Tail(dataIn), keys, r.values)
         IN  [placeHolders |-> <<<<"(">> \o Join(r.placeholders, <<",", " ">>) \o <<")">>>>
                               \o rest.placeHolders,
              values |-> rest.values]

\* dataIn.forEach(row => { ...; placeHolders.push(`(${...})`) })
RECURSIVE PushRows(_, _, _)
PushRows(dataIn, keys, values) ==
    IF Len(dataIn) = 0 THEN [placeHolders |-> <<>>, values |-> values]
    ELSE LET r == PushRow(dataIn[1], keys, values)
             rest == PushRows(Tail(dataIn), keys, r.values)
         IN  [placeHolders |-> <<<<"(">> \o Join(r.placeholders, <<",", " ">>) \o <<")">>>>
                               \o rest.placeHolders,
              values |-> rest.values]

\* updateKeys.map(key => { values.push(data[key]); return `${quote(key)} = $n` })
RECURSIVE SetClauses(_, _, _)
SetClauses(data, updateKeys, values) ==
    IF Len(updateKeys) = 0 THEN [setClauses |-> <<>>, values |-> values]
    ELSE LET pushed == Append(values, Get(OwnProps(data), updateKeys[1]))
             rest == SetClauses(data, Tail(updateKeys), pushed)
         IN  [setClauses |-> <<_quote(updateKeys[1])
                                \o <<" ", "=", " ", Placeholder(Len(pushed))>>>>
                              \o rest.setClauses,
              values |-> rest.values]

Returning(b) == IF b.returning THEN <<" ", "RETURNING", " ", "*">> ELSE <<>>

\* ToSQLSelect testing the limit and the offset for truthiness
ToSQLSelectTruthy(b, columns, tableUser) ==
    LET w == buildWhere(b.where, <<>>)
    IN  SqlResult(
            <<"SELECT", " ">> \o columns \o <<" ", "FROM", " ">> \o tableUser
            \o buildJoins(b.joins) \o w.text
            \o (IF b.limit # <<>> /\ b.limit # <<0>>
                THEN <<" ", "LIMIT", " ", ToString(b.limit[1])>> ELSE <<>>)
            \o (IF b.offset # <<>> /\ b.offset # <<0>>
                THEN <<" ", "OFFSET", " ", ToString(b.offset[1])>> ELSE <<>>),
            w.values)

\* ToSQLSelect with the joins after the WHERE clause
ToSQLSelectJoinsLast(b, columns, tableUser) ==
    LET w == buildWhere(b.where, <<>>)
    IN  SqlResult(
            <<"SELECT", " ">> \o columns \o <<" ", "FROM", " ">> \o tableUser
            \o w.text \o buildJoins(b.joins)
            \o (IF b.limit # <<>> THEN <<" ", "LIMIT", " ", ToString(b.limit[1])>> ELSE <<>>)
            \o (IF b.offset # <<>> THEN <<" ", "OFFSET", " ", ToString(b.offset[1])>> ELSE <<>>),
            w.values)

ToSQLSelect(b, columns, tableUser) ==
    LET w == buildWhere(b.where, <<>>)
    IN  SqlResult(
            <<"SELECT", " ">> \o columns \o <<" ", "FROM", " ">> \o tableUser
            \o buildJoins(b.joins) \o w.text
            \o (IF b.limit # <<>> THEN <<" ", "LIMIT", " ", ToString(b.limit[1])>> ELSE <<>>)
            \o (IF b.offset # <<>> THEN <<" ", "OFFSET", " ", ToString(b.offset[1])>> ELSE <<>>),
            w.values)

ToSQLInsert(b, tableUser) ==
    IF Len(b.joins) > 0 THEN Thrown("INSERT does not support JOINS")
    ELSE IF b.data.kind = "null" THEN Thrown("No data provided for INSERT")
    ELSE LET dataIn == IF b.data.kind = "array" THEN b.data.items ELSE <<b.data>>
         IN  IF Len(dataIn) = 0 THEN Thrown("Empty data array for INSERT")
             ELSE LET keys == Keys(OwnProps(dataIn[1]))
                  IN  IF Len(keys) = 0 THEN Thrown("No columns to insert")
                      ELSE LET quotedKeys == [i \in 1..Len(keys) |-> _quote(keys[i])]
                               p == PushRows(dataIn, keys, <<>>)
                           IN  SqlResult(
                                   <<"INSERT", " ", "INTO", " ">> \o tableUser
                                   \o <<" ", "(">> \o Join(quotedKeys, <<",", " ">>)
                                   \o <<")", " ", "VALUES", " ">>
                                   \o Join(p.placeHolders, <<",", " ">>)
                                   \o Returning(b),
                                   p.values)

\* ToSQLUpdate with the WHERE part numbered from $1 again
ToSQLUpdateRestarting(b, tableUser) ==
    IF Len(b.joins) > 0
    THEN Thrown("UPDATE does not support JOINS directly (use subqueries or raw SQL)")
    ELSE IF b.data.kind = "null" THEN Thrown("No data provided for UPDATE")
    ELSE LET updateKeys == Keys(OwnProps(b.data))
         IN  IF Len(updateKeys) = 0 THEN Thrown("No columns to update")
             ELSE LET s == SetClauses(b.data, updateKeys, <<>>)
                      w == buildWhere(b.where, <<>>)
                  IN  SqlResult(
                          <<"UPDATE", " ">> \o tableUser \o <<" ", "SET", " ">>
                          \o Join(s.setClauses, <<",", " ">>) \o w.text \o Returning(b),
                          s.values \o w.values)

\* ToSQLUpdate without the check for an empty payload
ToSQLUpdateUnchecked(b, tableUser) ==
    IF Len(b.joins) > 0
    THEN Thrown("UPDATE does not support JOINS directly (use subqueries or raw SQL)")
    ELSE IF b.data.kind = "null" THEN Thrown("No data provided for UPDATE")
    ELSE LET updateKeys == Keys(OwnProps(b.data))
             s == SetClauses(b.data, updateKeys, <<>>)
             w == buildWhere(b.where, s.values)
         IN  SqlResult(
                 <<"UPDATE", " ">> \o tableUser \o <<" ", "SET", " ">>
                 \o Join(s.setClauses, <<",", " ">>) \o w.text \o Returning(b),
                 w.values)

ToSQLUpdate(b, tableUser) ==
    IF Len(b.joins) > 0
    THEN Thrown("UPDATE does not support JOINS directly (use subqueries or raw SQL)")
    ELSE IF b.data.kind = "null" THEN Thrown("No data provided for UPDATE")
    ELSE LET updateKeys == Keys(OwnProps(b.data))
         IN  IF Len(updateKeys) = 0 THEN Thrown("No columns to update")
             ELSE LET s == SetClauses(b.data, updateKeys, <<>>)
                      w == buildWhere(b.where, s.values)
                  IN  SqlResult(
                          <<"UPDATE", " ">> \o tableUser \o <<" ", "SET", " ">>
                          \o Join(s.setClauses, <<",", " ">>) \o w.text \o Returning(b),
                          w.values)

\* ToSQLDelete without the check for joins
ToSQLDeleteIgnoringJoins(b, tableUser) ==
    LET w == buildWhere(b.where, <<>>)
    IN  SqlResult(<<"DELETE", " ", "FROM", " ">> \o tableUser \o w.text
                  \o Returning(b),
                  w.values)

ToSQLDelete(b, tableUser) ==
    IF Len(b.joins) > 0 THEN Thrown("DELETE does not support JOINS directly")
    ELSE LET w == buildWhere(b.where, <<>>)
         IN  SqlResult(<<"DELETE", " ", "FROM", " ">> \o tableUser \o w.text
                       \o Returning(b),
                       w.values)

\* toSQL() on the builder state b: the statement, or the error it throws
toSQL(b) ==
    LET columns == IF Len(b.select) > 0
                   THEN Join([i \in 1..Len(b.select) |-> _quote(b.select[i])], <<",", " ">>)
                   ELSE <<"*">>
        tableUser == _quote(b.table)
    IN  CASE b.operation = "SELECT" -> ToSQLSelect(b, columns, tableUser)
          [] b.operation = "INSERT" -> ToSQLInsert(b, tableUser)
          [] b.operation = "UPDATE" -> ToSQLUpdate(b, tableUser)
          [] b.operation = "DELETE" -> ToSQLDelete(b, tableUser)

\* the builder the calls are made on
this ==
    [table |-> _table, operation |-> _operation, data |-> _data,
     select |-> _select, where |-> _where, joins |-> _joins,
     limit |-> _limit, offset |-> _offset, returning |-> _returning]

-----------------------------------------------------------------------------
(* Inputs of the builder calls *)

A == Scalar("a")
B == Scalar("b")

Tables == {<<"users">>}

\* the conditions objects passed to where / orWhere
WhereInputs ==
    { <<>>,
      <<Prop(<<"x">>, Null)>>,
      <<Prop(<<"id">>, A)>>,
      <<Prop(<<"status">>, Obj(<<Prop("in", Arr(<<A, B>>))>>))>>,
      <<Prop(<<"status">>, Obj(<<Prop("in", Arr(<<>>))>>))>>,
      <<Prop(<<"status">>, Obj(<<Prop("in", A)>>))>>,
      <<Prop(<<"status">>, Obj(<<Prop("notIn", Arr(<<>>))>>))>>,
      <<Prop(<<"status">>, Obj(<<Prop("notIn", Arr(<<B>>))>>))>>,
      <<Prop(<<"age">>, Obj(<<Prop("lte", B), Prop("gt", A)>>))>>,
      <<Prop(<<"name">>, Obj(<<Prop("foo", A), Prop("like", A)>>))>>,
      <<Prop(<<"x">>, Obj(<<Prop("not", Null)>>))>>,
      <<Prop(<<"createdAt">>, DateVal("d"))>>,
      <<Prop(<<"tags">>, Arr(<<A>>))>>,
      <<Prop(<<"id">>, A), Prop(<<"x">>, Null), Prop(<<"users", ".", "id">>, B)>>,
      <<Prop(<<"x">>, Null), Prop(<<"status">>, Obj(<<Prop("in", Arr(<<>>))>>)),
        Prop(<<"id">>, B)>> }

\* the payloads passed to insert
InsertInputs ==
    { Null,
      Obj(<<>>),
      Arr(<<>>),
      Obj(<<Prop(<<"name">>, A), Prop(<<"email">>, B)>>),
      Arr(<<Obj(<<Prop(<<"a">>, A), Prop(<<"b">>, B)>>),
            Obj(<<Prop(<<"a">>, B), Prop(<<"b">>, A)>>)>>),
      Arr(<<Obj(<<Prop(<<"a">>, A), Prop(<<"b">>, B)>>),
            Obj(<<Prop(<<"c">>, A), Prop(<<"b">>, B)>>)>>) }

\* the payloads passed to update
UpdateInputs ==
    { Null,
      Obj(<<>>),
      Obj(<<Prop(<<"isActive">>, B)>>),
      Obj(<<Prop(<<"name">>, B), Prop(<<"age">>, Null)>>) }

SelectInputs ==
    { <<>>,
      <<<<"id">>, <<"name">>>>,
      << <<"users", ".", "id">>, <<"*">>, <<"COUNT", "(", "*", ")">>,
         <<"name", " ", "AS", " ", "n">>, <<Q, "email", Q>>,
         <<"public", ".", "users", ".", "name">> >> }

LimitInputs == {0, 10}
OffsetInputs == {0, 5}

JoinInputs == { [table |-> <<"posts">>, col1 |-> <<"users", ".", "id">>,
                 operator |-> "=", col2 |-> <<"posts", ".", "userId">>] }

-----------------------------------------------------------------------------
(* The builder calls *)

This == [kind |-> "this"]

CallOf(name, arg) == [name |-> name, arg |-> arg]

Txs == 1..NumTx
Conns == 1..NumConns

Pending == [kind |-> "pending"]
Resolved(v) == [kind |-> "resolved", value |-> v]
RejectedWith(e) == [kind |-> "rejected", value |-> e]

\* no transaction() call has been made
\* the fields of a builder after `new QueryBuilder(table, adapter)`
NewBuilder(table) ==
    [table |-> table, operation |-> "SELECT", data |-> Null, select |-> <<>>,
     where |-> <<>>, joins |-> <<>>, limit |-> <<>>, offset |-> <<>>,
     returning |-> FALSE]

\* a second builder on which nothing was called yet
Constructed(table) ==
    [state |-> NewBuilder(table), call |-> CallOf("constructor", <<>>),
     ret |-> [kind |-> "none"]]

TxIdle ==
    /\ pc = [p \in Txs |-> "idle"]
    /\ client = [p \in Txs |-> 0]
    /\ checkedOut = {}
    /\ clientLog = [p \in Txs |-> <<>>]
    /\ cbState = [p \in Txs |-> [status |-> "none", queries |-> 0]]
    /\ error = [p \in Txs |-> "none"]
    /\ nested = [p \in Txs |-> [status |-> "none", queries |-> 0]]
    /\ outcome = [p \in Txs |-> Pending]
    /\ pooled = [client |-> 0, queries |-> <<>>]

\* new QueryBuilder(table, adapter) over a new DummyAdapter()
Init ==
    /\ adapter = "DummyAdapter"
    /\ TxIdle
    /\ _table \in Tables
    /\ _operation = "SELECT"
    /\ _data = Null
    /\ _select = <<>>
    /\ _where = <<>>
    /\ _joins = <<>>
    /\ _limit = <<>>
    /\ _offset = <<>>
    /\ _returning = FALSE
    /\ call = CallOf("constructor", <<>>)
    /\ ret = [kind |-> "none"]
    /\ logs = <<>>
    /\ calls = 0
    /\ other = Constructed(<<"users">>)

\* a chainable call: it returns the builder itself
Called(name, arg) ==
    /\ calls < MaxCalls
    /\ calls' = calls + 1
    /\ call' = CallOf(name, arg)
    /\ ret' = This
    /\ UNCHANGED <<logs, txVars, other>>

insert(data) ==
    /\ Called("insert", data)
    /\ _operation' = "INSERT"
    /\ _data' = data
    /\ _returning' = TRUE
    /\ UNCHANGED <<_table, _select, _where, _joins, _limit, _offset>>

update(data) ==
    /\ Called("update", data)
    /\ _operation' = "UPDATE"
    /\ _data' = data
    /\ _returning' = TRUE
    /\ UNCHANGED <<_table, _select, _where, _joins, _limit, _offset>>

delete ==
    /\ Called("delete", <<>>)
    /\ _operation' = "DELETE"
    /\ _returning' = TRUE
    /\ UNCHANGED <<_table, _data, _select, _where, _joins, _limit, _offset>>

PushJoin(name, type, j) ==
    /\ Called(name, j)
    /\ _joins' = Append(_joins, [type |-> type, table |-> j.table,
                                 on |-> [col1 |-> j.col1, op |-> j.operator,
                                         col2 |-> j.col2]])
    /\ UNCHANGED <<_table, _operation, _data, _select, _where, _limit, _offset,
                   _returning>>

innerJoin(j) == PushJoin("innerJoin", "INNER", j)
leftJoin(j) == PushJoin("leftJoin", "LEFT", j)
rightJoin(j) == PushJoin("rightJoin", "RIGHT", j)
fullJoin(j) == PushJoin("fullJoin", "FULL", j)

\* select turning the builder back into a SELECT
selectResetting(columns) ==
    /\ Called("select", columns)
    /\ _select' = columns
    /\ _operation' = "SELECT"
    /\ _returning' = FALSE
    /\ UNCHANGED <<_table, _data, _where, _joins, _limit, _offset>>

select(columns) ==
    /\ Called("select", columns)
    /\ _select' = columns
    /\ UNCHANGED <<_table, _operation, _data, _where, _joins, _limit, _offset,
                   _returning>>

where(conditions) ==
    /\ Called("where", conditions)
    /\ _where' = _addWhere(_where, "AND", conditions)
    /\ UNCHANGED <<_table, _operation, _data, _select, _joins, _limit, _offset,
                   _returning>>

orWhere(conditions) ==
    /\ Called("orWhere", conditions)
    /\ _where' = _addWhere(_where, "OR", conditions)
    /\ UNCHANGED <<_table, _operation, _data, _select, _joins, _limit, _offset,
                   _returning>>

limit(n) ==
    /\ Called("limit", n)
    /\ _limit' = <<n>>
    /\ UNCHANGED <<_table, _operation, _data, _select, _where, _joins, _offset,
                   _returning>>

offset(n) ==
    /\ Called("offset", n)
    /\ _offset' = <<n>>
    /\ UNCHANGED <<_table, _operation, _data, _select, _where, _joins, _limit,
                   _returning>>

\* CallToSQL with `values` kept between calls instead of created per call
CallToSQLKeepingValues ==
    /\ call' = CallOf("toSQL", <<>>)
    /\ ret' = IF ret.kind = "sql" /\ toSQL(this).kind = "sql"
              THEN SqlResult(toSQL(this).sql, ret.values \o toSQL(this).values)
              ELSE toSQL(this)
    /\ UNCHANGED <<builderVars, logs, calls, txVars, other>>

\* a call of toSQL(): ret is the returned { sql, values } or the thrown error;
\* `values` and `sql` are locals of the call
CallToSQL ==
    /\ call' = CallOf("toSQL", <<>>)
    /\ ret' = toSQL(this)
    /\ UNCHANGED <<builderVars, logs, calls, txVars, other>>

\* DummyAdapter.query: logs the statement and resolves with no rows
Rows == [kind |-> "rows", rows |-> <<>>]
Rejected(msg) == [kind |-> "rejected", msg |-> msg]

\* execute(): toSQL(), then adapter.query(sql, values), then result.rows;
\* a throw of toSQL() rejects the promise before query is reached
\* Run answering a statement that was already sent from the log, without
\* calling query() again
RunCached ==
    LET r == toSQL(this)
    IN  IF r.kind = "error"
        THEN ret' = Rejected(r.msg) /\ UNCHANGED <<logs, calls>>
        ELSE /\ calls < MaxCalls
             /\ calls' = calls + 1
             /\ logs' = IF \E i \in 1..Len(logs) : logs[i].sql = r.sql THEN logs
                        ELSE Append(logs, [sql |-> r.sql, params |-> r.values])
             /\ ret' = Rows

Run ==
    LET r == toSQL(this)
    IN  IF r.kind = "error"
        THEN ret' = Rejected(r.msg) /\ UNCHANGED <<logs, calls>>
        ELSE /\ calls < MaxCalls
             /\ calls' = calls + 1
             /\ logs' = Append(logs, [sql |-> r.sql, params |-> r.values])
             /\ ret' = Rows

execute ==
    /\ call' = CallOf("execute", <<>>)
    /\ Run
    /\ UNCHANGED <<builderVars, txVars, other>>

\* then(): this.execute().then(onfulfilled, onrejected)
then ==
    /\ call' = CallOf("then", <<>>)
    /\ Run
    /\ UNCHANGED <<builderVars, txVars, other>>

Next ==
    \/ \E data \in InsertInputs : insert(data)
    \/ \E data \in UpdateInputs : update(data)
    \/ delete
    \/ \E j \in JoinInputs : innerJoin(j)
    \/ \E j \in JoinInputs : leftJoin(j)
    \/ \E j \in JoinInputs : rightJoin(j)
    \/ \E j \in JoinInputs : fullJoin(j)
    \/ \E columns \in SelectInputs : select(columns)
    \/ \E conditions \in WhereInputs : where(conditions)
    \/ \E conditions \in WhereInputs : orWhere(conditions)
    \/ \E n \in LimitInputs : limit(n)
    \/ \E n \in OffsetInputs : offset(n)
    \/ CallToSQL
    \/ execute
    \/ then

vars == <<_table, _operation, _data, _select, _where, _joins, _limit, _offset,
          _returning, call, ret, logs, calls, adapter, pc, client, checkedOut, clientLog,
          cbState, error, nested, outcome, other, pooled>>

Spec == Init /\ [][Next]_vars

-----------------------------------------------------------------------------
(* The QueryBuilder of src/query/builder.ts                                *)
(*                                                                         *)
(* The repository holds a second source of the class: the same fields and  *)
(* chainable calls without the join methods, and a toSQL() that writes     *)
(* identifiers as given and ends write statements with RETURNING followed  *)
(* by the projection.                                                      *)

\* the callback of this._where.map in buildWhere, without the connective
builder_ts_Condition(clause, values) ==
    LET col == clause.column
    IN  IF clause.operator \in {"IN", "NOT IN"}
        THEN IF clause.value.kind = "array" /\ Len(clause.value.items) > 0
             THEN LET p == PushAll(clause.value.items, values)
                  IN  [text |-> col \o <<" ">> \o OperatorText(clause.operator)
                                \o <<" ", "(">> \o Join(p.placeholders, <<",", " ">>)
                                \o <<")">>,
                       values |-> p.values]
             ELSE [text |-> IF clause.operator = "IN" THEN <<"1=0">> ELSE <<"1=1">>,
                   values |-> values]
        ELSE IF clause.operator \in {"IS", "IS NOT"}
        THEN [text |-> col \o <<" ">> \o OperatorText(clause.operator) \o <<" ">>
                       \o (IF clause.value.kind = "null" THEN <<"NULL">>
                           ELSE StringOf(clause.value)),
              values |-> values]
        ELSE LET pushed == Append(values, clause.value)
             IN  [text |-> col \o <<" ">> \o OperatorText(clause.operator)
                           \o <<" ", Placeholder(Len(pushed))>>,
                  values |-> pushed]

RECURSIVE builder_ts_MapClauses(_, _, _)
builder_ts_MapClauses(filters, index, values) ==
    IF index > Len(filters) THEN [clauses |-> <<>>, values |-> values]
    ELSE LET c == builder_ts_Condition(filters[index], values)
             text == IF index = 1 THEN c.text
                     ELSE <<filters[index].type, " ">> \o c.text
             rest == builder_ts_MapClauses(filters, index + 1, c.values)
         IN  [clauses |-> <<text>> \o rest.clauses, values |-> rest.values]

builder_ts_buildWhere(filters, values) ==
    IF Len(filters) = 0 THEN [text |-> <<>>, values |-> values]
    ELSE LET m == builder_ts_MapClauses(filters, 1, values)
         IN  [text |-> <<" ", "WHERE", " ">> \o Join(m.clauses, <<" ">>),
              values |-> m.values]

\* updateKeys.map(key => { values.push(data[key]); return `${key} = $n` })
RECURSIVE builder_ts_SetClauses(_, _, _)
builder_ts_SetClauses(data, updateKeys, values) ==
    IF Len(updateKeys) = 0 THEN [setClauses |-> <<>>, values |-> values]
    ELSE LET pushed == Append(values, Get(OwnProps(data), updateKeys[1]))
             rest == builder_ts_SetClauses(data, Tail(updateKeys), pushed)
         IN  [setClauses |-> <<updateKeys[1]
                                \o <<" ", "=", " ", Placeholder(Len(pushed))>>>>
                              \o rest.setClauses,
              values |-> rest.values]

\* if (this._returning) sql += ` RETURNING ${columns}`
builder_ts_Returning(b, columns) ==
    IF b.returning THEN <<" ", "RETURNING", " ">> \o columns ELSE <<>>

\* toSQL() of src/query/builder.ts on the builder state b
builder_ts_toSQL(b) ==
    LET columns == IF Len(b.select) > 0 THEN Join(b.select, <<",", " ">>) ELSE <<"*">>
    IN  CASE b.operation = "SELECT" ->
               LET w == builder_ts_buildWhere(b.where, <<>>)
               IN  SqlResult(
                       <<"SELECT", " ">> \o columns \o <<" ", "FROM", " ">> \o b.table
                       \o w.text
                       \o (IF b.limit # <<>>
                           THEN <<" ", "LIMIT", " ", ToString(b.limit[1])>> ELSE <<>>)
                       \o (IF b.offset # <<>>
                           THEN <<" ", "OFFSET", " ", ToString(b.offset[1])>> ELSE <<>>),
                       w.values)
          [] b.operation = "INSERT" ->
               IF b.data.kind = "null" THEN Thrown("No data provided for INSERT")
               ELSE LET dataIn == IF b.data.kind = "array" THEN b.data.items ELSE <<b.data>>
                    IN  IF Len(dataIn) = 0 THEN Thrown("Empty data array for INSERT")
                        ELSE LET keys == Keys(OwnProps(dataIn[1]))
                             IN  IF Len(keys) = 0 THEN Thrown("No columns to insert")
                                 ELSE LET p == PushRows(dataIn, keys, <<>>)
                                      IN  SqlResult(
                                              <<"INSERT", " ", "INTO", " ">> \o b.table
                                              \o <<" ", "(">> \o Join(keys, <<",", " ">>)
                                              \o <<")", " ", "VALUES", " ">>
                                              \o Join(p.placeHolders, <<",", " ">>)
                                              \o builder_ts_Returning(b, columns),
                                              p.values)
          [] b.operation = "UPDATE" ->
               IF b.data.kind = "null" THEN Thrown("No data provided for UPDATE")
               ELSE LET updateKeys == Keys(OwnProps(b.data))
                    IN  IF Len(updateKeys) = 0 THEN Thrown("No columns to update")
                        ELSE LET s == builder_ts_SetClauses(b.data, updateKeys, <<>>)
                                 w == builder_ts_buildWhere(b.where, s.values)
                             IN  SqlResult(
                                     <<"UPDATE", " ">> \o b.table \o <<" ", "SET", " ">>
                                     \o Join(s.setClauses, <<",", " ">>) \o w.text
                                     \o builder_ts_Returning(b, columns),
                                     w.values)
          [] b.operation = "DELETE" ->
               LET w == builder_ts_buildWhere(b.where, <<>>)
               IN  SqlResult(<<"DELETE", " ", "FROM", " ">> \o b.table \o w.text
                             \o builder_ts_Returning(b, columns),
                             w.values)

\* a call of toSQL()
builder_ts_CallToSQL ==
    /\ call' = CallOf("toSQL", <<>>)
    /\ ret' = builder_ts_toSQL(this)
    /\ UNCHANGED <<builderVars, logs, calls, txVars, other>>

\* execute(): toSQL(), then adapter.query(sql, values), then result.rows
builder_ts_Run ==
    LET r == builder_ts_toSQL(this)
    IN  IF r.kind = "error"
        THEN ret' = Rejected(r.msg) /\ UNCHANGED <<logs, calls>>
        ELSE /\ calls < MaxCalls
             /\ calls' = calls + 1
             /\ logs' = Append(logs, [sql |-> r.sql, params |-> r.values])
             /\ ret' = Rows

builder_ts_execute ==
    /\ call' = CallOf("execute", <<>>)
    /\ builder_ts_Run
    /\ UNCHANGED <<builderVars, txVars, other>>

\* then(): this.execute().then(onfulfilled, onrejected)
builder_ts_then ==
    /\ call' = CallOf("then", <<>>)
    /\ builder_ts_Run
    /\ UNCHANGED <<builderVars, txVars, other>>

builder_ts_Next ==
    \/ \E data \in InsertInputs : insert(data)
    \/ \E data \in UpdateInputs : update(data)
    \/ delete
    \/ \E columns \in SelectInputs : select(columns)
    \/ \E conditions \in WhereInputs : where(conditions)
    \/ \E conditions \in WhereInputs : orWhere(conditions)
    \/ \E n \in LimitInputs : limit(n)
    \/ \E n \in OffsetInputs : offset(n)
    \/ builder_ts_CallToSQL
    \/ builder_ts_execute
    \/ builder_ts_then

builder_ts_Spec == Init /\ [][builder_ts_Next]_vars

-----------------------------------------------------------------------------
(* PostgresAdapter.transaction and DummyAdapter.transaction                *)
(*                                                                         *)
(* Each p in Txs is one call of transaction(callback) on the same adapter, *)
(* numbered in the order the calls are made.  A callback is any program    *)
(* that awaits queries on the adapter it was handed and then returns or    *)
(* throws; the callbacks of a run await at most MaxQueries queries in all. *)
(* A statement sent to                                                     *)
(* a PoolClient completes or fails; a DummyAdapter only appends to _logs.  *)
(* Entries of _logs carry the call that made them (by) so that a scope can *)
(* be told from another one; calls on a PoolClient are recorded per        *)
(* transaction() call, each with the connection it was made on (on).       *)

Adapters == {"DummyAdapter", "PostgresAdapter"}

Statement == <<"SELECT", " ", "1">>

\* a call of client.query(sql) and whether it completed
ClientQuery(p, sql, ok) == [call |-> "query", sql |-> sql, on |-> client[p], ok |-> ok]
\* a call of client.release()
ClientRelease(p) == [call |-> "release", sql |-> <<>>, on |-> client[p], ok |-> TRUE]
\* this._logs.push({ sql, params: [] })
LogEntry(p, sql) == [sql |-> sql, params |-> <<>>, by |-> p]

TxInit ==
    /\ adapter \in Adapters
    /\ TxIdle
    /\ _table \in Tables
    /\ _operation = "SELECT"
    /\ _data = Null
    /\ _select = <<>>
    /\ _where = <<>>
    /\ _joins = <<>>
    /\ _limit = <<>>
    /\ _offset = <<>>
    /\ _returning = FALSE
    /\ call = CallOf("constructor", <<>>)
    /\ ret = [kind |-> "none"]
    /\ logs = <<>>
    /\ calls = 0
    /\ other = Constructed(<<"users">>)

builderIdle == UNCHANGED <<builderVars, call, ret, calls, adapter, other, pooled>>

RECURSIVE QueriesUpTo(_)
\* the queries the callbacks of calls 1..n have awaited so far
QueriesUpTo(n) == IF n = 0 THEN 0 ELSE cbState[n].queries + QueriesUpTo(n - 1)

\* transaction(callback) is called for the p-th time.  DummyAdapter: BEGIN
\* is logged and the callback starts.  PostgresAdapter (this.client is null,
\* this.pool is set): const client = await this.pool.connect() hands out an
\* idle connection (connections being interchangeable, the lowest-numbered
\* one), or the pool fails and transaction() rejects outside the try block.
transaction(p) ==
    /\ pc[p] = "idle"
    /\ \A q \in 1..(p - 1) : pc[q] # "idle"
    /\ IF adapter = "DummyAdapter"
       THEN /\ logs' = Append(logs, LogEntry(p, <<"BEGIN">>))
            /\ pc' = [pc EXCEPT ![p] = "callback"]
            /\ cbState' = [cbState EXCEPT ![p].status = "running"]
            /\ UNCHANGED <<client, checkedOut, outcome>>
       ELSE /\ \/ \E c \in Conns \ checkedOut :
                    /\ \A d \in Conns \ checkedOut : c <= d
                    /\ client' = [client EXCEPT ![p] = c]
                    /\ checkedOut' = checkedOut \cup {c}
                    /\ pc' = [pc EXCEPT ![p] = "begin"]
                    /\ UNCHANGED outcome
               \/ /\ outcome' = [outcome EXCEPT ![p] = RejectedWith("connect failed")]
                  /\ pc' = [pc EXCEPT ![p] = "settled"]
                  /\ UNCHANGED <<client, checkedOut>>
            /\ UNCHANGED <<logs, cbState>>
    /\ UNCHANGED <<clientLog, error>>
    /\ UNCHANGED nested
    /\ builderIdle

\* await client.query("BEGIN"); on success the callback is called with a
\* new PostgresAdapter(client)
Begin(p) ==
    /\ pc[p] = "begin"
    /\ \E ok \in BOOLEAN :
          /\ clientLog' = [clientLog EXCEPT ![p] =
                             Append(@, ClientQuery(p, <<"BEGIN">>, ok))]
          /\ IF ok
             THEN /\ pc' = [pc EXCEPT ![p] = "callback"]
                  /\ cbState' = [cbState EXCEPT ![p].status = "running"]
                  /\ UNCHANGED error
             ELSE /\ pc' = [pc EXCEPT ![p] = "catch"]
                  /\ error' = [error EXCEPT ![p] = "BEGIN failed"]
                  /\ UNCHANGED cbState
    /\ UNCHANGED <<logs, client, checkedOut, outcome>>
    /\ UNCHANGED nested
    /\ builderIdle

\* the callback awaits trx.query(...).  The scoped PostgresAdapter sends it
\* to its client; when it fails the callback catches the error and goes on,
\* or lets it propagate.  The scoped DummyAdapter appends to the shared logs.
CallbackQuery(p) ==
    /\ pc[p] = "callback"
    /\ QueriesUpTo(NumTx) + Len(pooled.queries) < MaxQueries
    /\ IF adapter = "DummyAdapter"
       THEN /\ logs' = Append(logs, LogEntry(p, Statement))
            /\ cbState' = [cbState EXCEPT ![p].queries = @ + 1]
            /\ UNCHANGED <<clientLog, pc, error>>
       ELSE /\ \E ok \in BOOLEAN, caught \in BOOLEAN :
                  /\ clientLog' = [clientLog EXCEPT ![p] =
                                     Append(@, ClientQuery(p, Statement, ok))]
                  /\ IF ok \/ caught
                     THEN /\ cbState' = [cbState EXCEPT ![p].queries = @ + 1]
                          /\ UNCHANGED <<pc, error>>
                     ELSE /\ cbState' = [cbState EXCEPT ![p] =
                                             [status |-> "raised", queries |-> @.queries + 1]]
                          /\ pc' = [pc EXCEPT ![p] = "catch"]
                          /\ error' = [error EXCEPT ![p] = "query failed"]
            /\ UNCHANGED logs
    /\ UNCHANGED <<client, checkedOut, outcome>>
    /\ UNCHANGED nested
    /\ builderIdle

\* the callback throws an error of its own (or its promise rejects)
CallbackThrow(p) ==
    /\ pc[p] = "callback"
    /\ cbState' = [cbState EXCEPT ![p].status = "raised"]
    /\ error' = [error EXCEPT ![p] = "callback error"]
    /\ pc' = [pc EXCEPT ![p] = "catch"]
    /\ UNCHANGED <<logs, client, checkedOut, clientLog, outcome>>
    /\ UNCHANGED nested
    /\ builderIdle

\* the callback returns its result
CallbackReturn(p) ==
    /\ pc[p] = "callback"
    /\ cbState' = [cbState EXCEPT ![p].status = "returned"]
    /\ pc' = [pc EXCEPT ![p] = "commit"]
    /\ UNCHANGED <<logs, client, checkedOut, clientLog, error, outcome>>
    /\ UNCHANGED nested
    /\ builderIdle

\* Commit returning the result whether or not COMMIT completed
CommitUnchecked(p) ==
    /\ pc[p] = "commit"
    /\ IF adapter = "DummyAdapter"
       THEN /\ logs' = Append(logs, LogEntry(p, <<"COMMIT">>))
            /\ UNCHANGED <<clientLog, checkedOut>>
       ELSE /\ \E ok \in BOOLEAN :
                  clientLog' = [clientLog EXCEPT ![p] =
                                  @ \o <<ClientQuery(p, <<"COMMIT">>, ok), ClientRelease(p)>>]
            /\ checkedOut' = checkedOut \ {client[p]}
            /\ UNCHANGED logs
    /\ outcome' = [outcome EXCEPT ![p] = Resolved("result")]
    /\ pc' = [pc EXCEPT ![p] = "settled"]
    /\ UNCHANGED <<client, cbState, error>>
    /\ UNCHANGED nested
    /\ builderIdle

\* DummyAdapter: logs COMMIT and returns result.  PostgresAdapter:
\* await client.query("COMMIT"); return result, leaving through
\* finally { client.release() } - or COMMIT fails and the catch block is
\* entered
Commit(p) ==
    /\ pc[p] = "commit"
    /\ IF adapter = "DummyAdapter"
       THEN /\ logs' = Append(logs, LogEntry(p, <<"COMMIT">>))
            /\ outcome' = [outcome EXCEPT ![p] = Resolved("result")]
            /\ pc' = [pc EXCEPT ![p] = "settled"]
            /\ UNCHANGED <<clientLog, checkedOut, error>>
       ELSE /\ \E ok \in BOOLEAN :
                  IF ok
                  THEN /\ clientLog' = [clientLog EXCEPT ![p] =
                                          @ \o <<ClientQuery(p, <<"COMMIT">>, TRUE),
                                                 ClientRelease(p)>>]
                       /\ checkedOut' = checkedOut \ {client[p]}
                       /\ outcome' = [outcome EXCEPT ![p] = Resolved("result")]
                       /\ pc' = [pc EXCEPT ![p] = "settled"]
                       /\ UNCHANGED error
                  ELSE /\ clientLog' = [clientLog EXCEPT ![p] =
                                          Append(@, ClientQuery(p, <<"COMMIT">>, FALSE))]
                       /\ error' = [error EXCEPT ![p] = "COMMIT failed"]
                       /\ pc' = [pc EXCEPT ![p] = "catch"]
                       /\ UNCHANGED <<checkedOut, outcome>>
            /\ UNCHANGED logs
    /\ UNCHANGED <<client, cbState>>
    /\ UNCHANGED nested
    /\ builderIdle

\* Rollback that rethrows without sending ROLLBACK
RollbackNotIssued(p) ==
    /\ pc[p] = "catch"
    /\ IF adapter = "DummyAdapter"
       THEN UNCHANGED <<clientLog, checkedOut>>
       ELSE /\ clientLog' = [clientLog EXCEPT ![p] = Append(@, ClientRelease(p))]
            /\ checkedOut' = checkedOut \ {client[p]}
    /\ outcome' = [outcome EXCEPT ![p] = RejectedWith(error[p])]
    /\ pc' = [pc EXCEPT ![p] = "settled"]
    /\ UNCHANGED <<logs, client, cbState, error>>
    /\ UNCHANGED nested
    /\ builderIdle

\* Rollback whose failing ROLLBACK leaves the function before the release
RollbackLeaking(p) ==
    /\ pc[p] = "catch"
    /\ IF adapter = "DummyAdapter"
       THEN /\ logs' = Append(logs, LogEntry(p, <<"ROLLBACK">>))
            /\ outcome' = [outcome EXCEPT ![p] = RejectedWith(error[p])]
            /\ UNCHANGED <<clientLog, checkedOut>>
       ELSE /\ \E ok \in BOOLEAN :
                  IF ok
                  THEN /\ clientLog' = [clientLog EXCEPT ![p] =
                                          @ \o <<ClientQuery(p, <<"ROLLBACK">>, TRUE),
                                                 ClientRelease(p)>>]
                       /\ checkedOut' = checkedOut \ {client[p]}
                       /\ outcome' = [outcome EXCEPT ![p] = RejectedWith(error[p])]
                  ELSE /\ clientLog' = [clientLog EXCEPT ![p] =
                                          Append(@, ClientQuery(p, <<"ROLLBACK">>, FALSE))]
                       /\ outcome' = [outcome EXCEPT ![p] = RejectedWith("ROLLBACK failed")]
                       /\ UNCHANGED checkedOut
            /\ UNCHANGED logs
    /\ pc' = [pc EXCEPT ![p] = "settled"]
    /\ UNCHANGED <<client, cbState, error>>
    /\ UNCHANGED nested
    /\ builderIdle

\* the catch block.  DummyAdapter: logs ROLLBACK and rethrows.
\* PostgresAdapter: await client.query("ROLLBACK"); throw error - a failing
\* ROLLBACK throws its own error out of the catch block; either way the
\* function leaves through finally { client.release() }
Rollback(p) ==
    /\ pc[p] = "catch"
    /\ IF adapter = "DummyAdapter"
       THEN /\ logs' = Append(logs, LogEntry(p, <<"ROLLBACK">>))
            /\ outcome' = [outcome EXCEPT ![p] = RejectedWith(error[p])]
            /\ UNCHANGED <<clientLog, checkedOut>>
       ELSE /\ \E ok \in BOOLEAN :
                  /\ clientLog' = [clientLog EXCEPT ![p] =
                                     @ \o <<ClientQuery(p, <<"ROLLBACK">>, ok),
                                            ClientRelease(p)>>]
                  /\ outcome' = [outcome EXCEPT ![p] =
                                     IF ok THEN RejectedWith(error[p])
                                     ELSE RejectedWith("ROLLBACK failed")]
            /\ checkedOut' = checkedOut \ {client[p]}
            /\ UNCHANGED logs
    /\ pc' = [pc EXCEPT ![p] = "settled"]
    /\ UNCHANGED <<client, cbState, error>>
    /\ UNCHANGED nested
    /\ builderIdle

TxNext ==
    \/ \E p \in Txs : transaction(p)
    \/ \E p \in Txs : Begin(p)
    \/ \E p \in Txs : CallbackQuery(p)
    \/ \E p \in Txs : CallbackThrow(p)
    \/ \E p \in Txs : CallbackReturn(p)
    \/ \E p \in Txs : Commit(p)
    \/ \E p \in Txs : Rollback(p)

TxSpec == TxInit /\ [][TxNext]_vars

-----------------------------------------------------------------------------
(* transaction() on a PostgresAdapter scoped to a connection               *)
(*                                                                         *)
(* The callback of call p is handed new PostgresAdapter(client), whose     *)
(* this.client is set.  When the callback calls trx.transaction(inner),    *)
(* the branch `if (this.client) return callback(this)` runs inner on that  *)
(* adapter.  The inner callback awaits up to MaxQueries queries of its own *)
(* (NestedStatement tells them from the outer callback's) and returns or   *)
(* throws; what it                                                         *)
(* throws reaches the outer callback, which catches it or lets it          *)
(* propagate.                                                              *)

NestedStatement == <<"SELECT", " ", "2">>

\* trx.transaction(inner) that opens a savepoint before running inner
NestedTransactionSavepoint(p) ==
    /\ adapter = "PostgresAdapter"
    /\ pc[p] = "callback"
    /\ nested[p].status = "none"
    /\ nested' = [nested EXCEPT ![p].status = "running"]
    /\ pc' = [pc EXCEPT ![p] = "nested"]
    /\ clientLog' = [clientLog EXCEPT ![p] =
                         Append(@, ClientQuery(p, <<"SAVEPOINT">>, TRUE))]
    /\ UNCHANGED <<logs, client, checkedOut, cbState, error, outcome>>
    /\ builderIdle

\* the callback calls trx.transaction(inner): this.client is set, so
\* inner(this) is called and its promise returned
NestedTransaction(p) ==
    /\ adapter = "PostgresAdapter"
    /\ pc[p] = "callback"
    /\ nested[p].status = "none"
    /\ nested' = [nested EXCEPT ![p].status = "running"]
    /\ pc' = [pc EXCEPT ![p] = "nested"]
    /\ UNCHANGED <<logs, client, checkedOut, clientLog, cbState, error, outcome>>
    /\ builderIdle

\* the outer callback receives the rejection of trx.transaction(inner): it
\* catches it and goes on, or lets it propagate to the catch block of the
\* outer transaction()
NestedRejects(p, e) ==
    /\ nested' = [nested EXCEPT ![p].status = "raised"]
    /\ \E caught \in BOOLEAN :
          IF caught
          THEN /\ pc' = [pc EXCEPT ![p] = "callback"]
               /\ UNCHANGED <<cbState, error>>
          ELSE /\ pc' = [pc EXCEPT ![p] = "catch"]
               /\ cbState' = [cbState EXCEPT ![p].status = "raised"]
               /\ error' = [error EXCEPT ![p] = e]

\* inner awaits this.query(...): executor is this.client.  A failing query
\* is caught by inner, or rejects trx.transaction(inner)
NestedQuery(p) ==
    /\ pc[p] = "nested"
    /\ nested[p].queries < MaxQueries
    /\ \E ok \in BOOLEAN, caught \in BOOLEAN :
          /\ clientLog' = [clientLog EXCEPT ![p] =
                               Append(@, ClientQuery(p, NestedStatement, ok))]
          /\ IF ok \/ caught
             THEN /\ nested' = [nested EXCEPT ![p].queries = @ + 1]
                  /\ UNCHANGED <<pc, cbState, error>>
             ELSE NestedRejects(p, "query failed")
    /\ UNCHANGED <<logs, client, checkedOut, outcome>>
    /\ builderIdle

\* inner throws an error of its own
NestedThrow(p) ==
    /\ pc[p] = "nested"
    /\ NestedRejects(p, "nested error")
    /\ UNCHANGED <<logs, client, checkedOut, clientLog, outcome>>
    /\ builderIdle

\* inner returns and trx.transaction(inner) resolves with its result
NestedReturn(p) ==
    /\ pc[p] = "nested"
    /\ nested' = [nested EXCEPT ![p].status = "returned"]
    /\ pc' = [pc EXCEPT ![p] = "callback"]
    /\ UNCHANGED <<logs, client, checkedOut, clientLog, cbState, error, outcome>>
    /\ builderIdle

\* new PostgresAdapter(pool): this.pool is set, this.client is null
NestedInit ==
    /\ TxInit
    /\ adapter = "PostgresAdapter"

\* one transaction() call on the pooled adapter, whose callback may call
\* trx.transaction(inner) once
NestedNext ==
    \/ transaction(1)
    \/ Begin(1)
    \/ CallbackQuery(1)
    \/ CallbackThrow(1)
    \/ CallbackReturn(1)
    \/ NestedTransaction(1)
    \/ NestedQuery(1)
    \/ NestedThrow(1)
    \/ NestedReturn(1)
    \/ Commit(1)
    \/ Rollback(1)

NestedSpec == NestedInit /\ [][NestedNext]_vars

-----------------------------------------------------------------------------
(* Reading a compiled statement back *)

IsPlaceholderIn(text, atom) == \E k \in 1..Len(text) : atom = Placeholder(k)

\* the placeholders of a text, left to right
PlaceholdersIn(text) == SelectSeq(text, LAMBDA atom : IsPlaceholderIn(text, atom))

\* $first+1, ..., $first+n
Numbered(first, n) == [k \in 1..n |-> Placeholder(first + k)]

StartsWithText(text, head) ==
    Len(head) <= Len(text) /\ SubSeq(text, 1, Len(head)) = head

FirstIndex(text, atom) ==
    IF Includes(text, atom)
    THEN CHOOSE i \in 1..Len(text) :
             text[i] = atom /\ \A j \in 1..(i - 1) : text[j] # atom
    ELSE 0

Trim(str) ==
    LET from == IF StartsWith(str, " ") THEN 2 ELSE 1
        to == IF Len(str) > 0 /\ str[Len(str)] = " " THEN Len(str) - 1 ELSE Len(str)
    IN  SubSeq(str, from, to)

RECURSIVE SplitOnConnectives(_, _)
SplitOnConnectives(str, cur) ==
    IF Len(str) = 0 THEN <<Trim(cur)>>
    ELSE IF str[1] \in {"AND", "OR"}
    THEN <<Trim(cur)>> \o SplitOnConnectives(Tail(str), <<>>)
    ELSE SplitOnConnectives(Tail(str), Append(cur, str[1]))

\* the atoms after WHERE up to RETURNING / LIMIT / OFFSET or the end
WherePart(text) ==
    LET w == FirstIndex(text, "WHERE")
        stops == {i \in (w + 1)..Len(text) : text[i] \in {"RETURNING", "LIMIT", "OFFSET"}}
        end == IF stops = {} THEN Len(text)
               ELSE (CHOOSE i \in stops : \A j \in stops : i <= j) - 1
    IN  IF w = 0 THEN <<>> ELSE SubSeq(text, w + 1, end)

\* the conditions of the WHERE clause of a text, without their connectives
ConditionsIn(text) ==
    IF FirstIndex(text, "WHERE") = 0 THEN <<>>
    ELSE SplitOnConnectives(WherePart(text), <<>>)

RECURSIVE Flatten(_)
Flatten(seqs) == IF Len(seqs) = 0 THEN <<>> ELSE seqs[1] \o Flatten(Tail(seqs))

\* the values a filter clause is to bind, by its operator
BoundBy(clause) ==
    IF clause.operator \in {"IN", "NOT IN"}
    THEN IF clause.value.kind = "array" THEN clause.value.items ELSE <<>>
    ELSE IF clause.operator \in {"IS", "IS NOT"} THEN <<>>
    ELSE <<clause.value>>

FilterValues(clauses) == Flatten([i \in 1..Len(clauses) |-> BoundBy(clauses[i])])

\* the records of an INSERT payload
Records(data) == IF data.kind = "array" THEN data.items ELSE <<data>>

\* the values the payload of a statement is to bind, in text order
PayloadValues(b) ==
    IF b.operation = "UPDATE"
    THEN [i \in 1..Len(b.data.entries) |-> b.data.entries[i].val]
    ELSE IF b.operation = "INSERT"
    THEN LET keys == Keys(Records(b.data)[1].entries)
         IN  Flatten([r \in 1..Len(Records(b.data)) |->
                        [c \in 1..Len(keys) |-> Get(Records(b.data)[r].entries, keys[c])]])
    ELSE <<>>

\* the values a statement is to bind, in text order
BoundValues(b) ==
    PayloadValues(b) \o (IF b.operation = "INSERT" THEN <<>> ELSE FilterValues(b.where))

Compiled == ret.kind = "sql"

Binds(clause) == Len(BoundBy(clause)) > 0

-----------------------------------------------------------------------------
(* C1: in every statement toSQL() compiles, the placeholders of the text   *)
(* are exactly $1, ..., $n from left to right, each once, where n is the   *)
(* number of parameters, and the parameters are the bound values in the    *)
(* order their placeholders appear.                                        *)
C1_PlaceholdersNumbered ==
    Compiled =>
        /\ PlaceholdersIn(ret.sql) = Numbered(0, Len(ret.values))
        /\ ret.values = BoundValues(this)

\* an UPDATE was compiled whose filters have an IS NULL clause between two
\* clauses that bind
C1_Witness ==
    /\ Compiled
    /\ _operation = "UPDATE"
    /\ \E i, j, k \in 1..Len(_where) :
          /\ i < j /\ j < k
          /\ Binds(_where[i]) /\ _where[j].operator = "IS" /\ Binds(_where[k])

-----------------------------------------------------------------------------
(* C2: a compiled UPDATE with k payload keys starts with                   *)
(* UPDATE <table> SET <key1> = $1, ..., <keyk> = $k, the placeholders of   *)
(* what follows continue at $k+1, and the parameters are the payload       *)
(* values in key order followed by the filter values in clause order.      *)
C2_UpdateNumbering ==
    (Compiled /\ _operation = "UPDATE") =>
        LET keys == Keys(_data.entries)
            k == Len(keys)
            head == <<"UPDATE", " ">> \o _quote(_table) \o <<" ", "SET", " ">>
                    \o Join([i \in 1..k |->
                               _quote(keys[i]) \o <<" ", "=", " ", Placeholder(i)>>],
                            <<",", " ">>)
            rest == SubSeq(ret.sql, Len(head) + 1, Len(ret.sql))
        IN  /\ k >= 1
            /\ StartsWithText(ret.sql, head)
            /\ PlaceholdersIn(rest) = Numbered(k, Len(ret.values) - k)
            /\ ret.values = [i \in 1..k |-> _data.entries[i].val] \o FilterValues(_where)

\* update({isActive: b}).where({id: a}).toSQL()
C2_Witness ==
    /\ _operation = "UPDATE"
    /\ ret = SqlResult(<<"UPDATE", " ", Q, "users", Q, " ", "SET", " ",
                         Q, "isActive", Q, " ", "=", " ", "$1", " ",
                         "WHERE", " ", Q, "id", Q, " ", "=", " ", "$2", " ",
                         "RETURNING", " ", "*">>,
                       <<B, A>>)

\* the number of values bound before filter clause i of the builder
BoundBefore(i) ==
    Len(PayloadValues(this)) + Len(FilterValues(SubSeq(_where, 1, i - 1)))

(* C3: in a compiled statement an IN / NOT IN clause over a list of m > 0  *)
(* elements reads <col> <OP> ($i, ..., $i+m-1) and binds exactly those     *)
(* elements, in order, at i..i+m-1; over an empty list it reads 1=0 (IN)   *)
(* or 1=1 (NOT IN) and binds nothing; where({status: {in: []}}) alone      *)
(* compiles to ... WHERE 1=0 with no parameters.                           *)
C3_InLists ==
    (Compiled /\ _operation # "INSERT") =>
        /\ Len(ConditionsIn(ret.sql)) = Len(_where)
        /\ \A i \in 1..Len(_where) :
              (_where[i].operator \in {"IN", "NOT IN"} /\ _where[i].value.kind = "array") =>
                  LET items == _where[i].value.items
                      m == Len(items)
                      first == BoundBefore(i)
                  IN  IF m > 0
                      THEN /\ ConditionsIn(ret.sql)[i] =
                                  _quote(_where[i].column) \o <<" ">>
                                  \o OperatorText(_where[i].operator) \o <<" ", "(">>
                                  \o Join([x \in 1..m |-> <<Placeholder(first + x)>>],
                                          <<",", " ">>)
                                  \o <<")">>
                           /\ SubSeq(ret.values, first + 1, first + m) = items
                           /\ BoundBefore(i + 1) = first + m
                      ELSE /\ ConditionsIn(ret.sql)[i] =
                                  (IF _where[i].operator = "IN" THEN <<"1=0">> ELSE <<"1=1">>)
                           /\ BoundBefore(i + 1) = first
        /\ Len(ret.values) = BoundBefore(Len(_where) + 1)
        /\ (/\ _operation = "SELECT" /\ _select = <<>> /\ _joins = <<>>
            /\ _limit = <<>> /\ _offset = <<>>
            /\ _where = <<Clause("AND", <<"status">>, "IN", Arr(<<>>))>>)
           => ret = SqlResult(<<"SELECT", " ", "*", " ", "FROM", " ">> \o _quote(_table)
                              \o <<" ", "WHERE", " ", "1=0">>, <<>>)

\* a statement was compiled with an empty IN list followed by a NOT IN or IN
\* list that binds
C3_Witness ==
    /\ Compiled
    /\ \E i, j \in 1..Len(_where) :
          /\ i < j
          /\ _where[i].operator = "IN" /\ _where[i].value = Arr(<<>>)
          /\ _where[j].operator \in {"IN", "NOT IN"} /\ Binds(_where[j])

\* the clauses a where / orWhere step appended
Appended == SubSeq(_where', Len(_where) + 1, Len(_where'))

(* C4: a where / orWhere entry whose value is null appends exactly one     *)
(* clause for its column, with operator IS and value null; a compiled IS   *)
(* clause reads <col> IS NULL, holds no placeholder and binds no           *)
(* parameter.                                                              *)
C4_IsNull ==
    /\ [][(call'.name \in {"where", "orWhere"} /\ calls' = calls + 1) =>
            \A e \in 1..Len(call'.arg) :
                call'.arg[e].val = Null =>
                    /\ Cardinality({i \in 1..Len(Appended) :
                                      Appended[i].column = call'.arg[e].key}) = 1
                    /\ \E i \in 1..Len(Appended) :
                          Appended[i] =
                              Clause(IF call'.name = "where" THEN "AND" ELSE "OR",
                                     call'.arg[e].key, "IS", Null)]_vars
    /\ [](Compiled /\ _operation # "INSERT" =>
            /\ Len(ConditionsIn(ret.sql)) = Len(_where)
            /\ \A i \in 1..Len(_where) :
                  _where[i].operator \in {"IS", "IS NOT"} =>
                      /\ ConditionsIn(ret.sql)[i] =
                             _quote(_where[i].column) \o <<" ">>
                             \o OperatorText(_where[i].operator) \o <<" ", "NULL">>
                      /\ BoundBefore(i + 1) = BoundBefore(i)
            /\ Len(ret.values) = BoundBefore(Len(_where) + 1)
            /\ Len(PlaceholdersIn(ret.sql)) = Len(ret.values))

\* where({x: null}) was compiled on its own
C4_Witness ==
    /\ _where = <<Clause("AND", <<"x">>, "IS", Null)>>
    /\ _operation = "SELECT" /\ _select = <<>> /\ _joins = <<>>
    /\ _limit = <<>> /\ _offset = <<>>
    /\ ret = SqlResult(<<"SELECT", " ", "*", " ", "FROM", " ">> \o _quote(_table)
                       \o <<" ", "WHERE", " ", Q, "x", Q, " ", "IS", " ", "NULL">>, <<>>)

(* C5: a compiled INSERT of r >= 1 records whose first record has c >= 1   *)
(* keys lists the first record's keys in order, has r tuples of c          *)
(* placeholders and r*c parameters, record by record and within a record   *)
(* in the first record's key order; a key a record lacks binds undefined.  *)
C5_InsertRecords ==
    (Compiled /\ _operation = "INSERT") =>
        LET records == Records(_data)
            r == Len(records)
            keys == Keys(records[1].entries)
            c == Len(keys)
            tuple(i) == <<"(">> \o Join([j \in 1..c |-> <<Placeholder((i - 1) * c + j)>>],
                                        <<",", " ">>) \o <<")">>
        IN  /\ r >= 1 /\ c >= 1
            /\ ret.sql = <<"INSERT", " ", "INTO", " ">> \o _quote(_table) \o <<" ", "(">>
                         \o Join([j \in 1..c |-> _quote(keys[j])], <<",", " ">>)
                         \o <<")", " ", "VALUES", " ">>
                         \o Join([i \in 1..r |-> tuple(i)], <<",", " ">>)
                         \o <<" ", "RETURNING", " ", "*">>
            /\ Len(ret.values) = r * c
            /\ \A i \in 1..r, j \in 1..c :
                  ret.values[(i - 1) * c + j] =
                      (IF HasKey(records[i].entries, keys[j])
                       THEN Get(records[i].entries, keys[j])
                       ELSE Undefined)

\* two records were inserted, the second lacking a key of the first and
\* having one the first lacks
C5_Witness ==
    /\ Compiled
    /\ _operation = "INSERT"
    /\ _data.kind = "array"
    /\ Len(_data.items) = 2
    /\ Keys(_data.items[2].entries) # Keys(_data.items[1].entries)
    /\ Len(ret.values) = 4

WriteWithJoins == _operation \in {"INSERT", "UPDATE", "DELETE"} /\ Len(_joins) > 0

(* C7: on a builder whose operation is INSERT, UPDATE or DELETE and that   *)
(* has a join, toSQL() throws, execute() and then() reject, and no call    *)
(* adds an entry to the adapter's log.                                     *)
C7_JoinsRejected ==
    [][WriteWithJoins =>
          /\ logs' = logs
          /\ call'.name = "toSQL" => ret'.kind = "error"
          /\ call'.name \in {"execute", "then"} => ret'.kind = "rejected"]_vars

\* execute() was rejected on a DELETE with a join
C7_Witness ==
    /\ WriteWithJoins
    /\ _operation = "DELETE"
    /\ call.name = "execute"
    /\ ret.kind = "rejected"
    /\ logs = <<>>

-----------------------------------------------------------------------------
(* Reading the logs of a transaction scope *)

\* the statements call p issued, in order, each with whether it completed
Issued(p) ==
    IF adapter = "DummyAdapter"
    THEN LET mine == SelectSeq(logs, LAMBDA e : e.by = p)
         IN  [i \in 1..Len(mine) |-> [sql |-> mine[i].sql, ok |-> TRUE]]
    ELSE LET mine == SelectSeq(clientLog[p], LAMBDA e : e.call = "query")
         IN  [i \in 1..Len(mine) |-> [sql |-> mine[i].sql, ok |-> mine[i].ok]]

IssuedSql(p) == [i \in 1..Len(Issued(p)) |-> Issued(p)[i].sql]

\* p sent sql on a connection or logged it
SentAnywhere(p, sql) ==
    \/ \E i \in 1..Len(logs) : logs[i].by = p /\ logs[i].sql = sql
    \/ \E i \in 1..Len(clientLog[p]) :
          clientLog[p][i].call = "query" /\ clientLog[p][i].sql = sql

IsPrefix(a, b) == Len(a) <= Len(b) /\ SubSeq(b, 1, Len(a)) = a

\* BEGIN, the n statements of the callback, COMMIT
CommittedRun(n) == <<<<"BEGIN">>>> \o [i \in 1..n |-> Statement] \o <<<<"COMMIT">>>>

\* the COMMIT of p completed
CommitCompleted(p) ==
    \E i \in 1..Len(Issued(p)) : Issued(p)[i] = [sql |-> <<"COMMIT">>, ok |-> TRUE]

(* C8: when the callback of a transaction has raised, no COMMIT is ever    *)
(* issued for that scope, the promise is never resolved, and when the      *)
(* promise is rejected a ROLLBACK has been issued after the BEGIN.         *)
C8_RollbackOnRaise ==
    \A p \in Txs :
        cbState[p].status = "raised" =>
            /\ ~SentAnywhere(p, <<"COMMIT">>)
            /\ outcome[p].kind # "resolved"
            /\ outcome[p].kind = "rejected" =>
                  \E i, j \in 1..Len(Issued(p)) :
                      /\ i < j
                      /\ Issued(p)[i].sql = <<"BEGIN">>
                      /\ Issued(p)[j].sql = <<"ROLLBACK">>

\* a PostgresAdapter transaction was rejected after its callback threw
C8_Witness ==
    /\ adapter = "PostgresAdapter"
    /\ \E p \in Txs :
          /\ cbState[p].status = "raised"
          /\ error[p] = "callback error"
          /\ outcome[p].kind = "rejected"

\* C9 as stated: when the callback has returned, the statements of the
\* scope are BEGIN, the callback's queries, COMMIT in that order, no ROLLBACK
\* is issued, and the settled promise is resolved with the callback's result.
C9_AsStated ==
    \A p \in Txs :
        cbState[p].status = "returned" =>
            /\ IsPrefix(IssuedSql(p), CommittedRun(cbState[p].queries))
            /\ ~SentAnywhere(p, <<"ROLLBACK">>)
            /\ pc[p] = "settled" => outcome[p] = Resolved("result")

(* C9 amended: when the callback has returned, the statements of the scope *)
(* are BEGIN, the callback's queries, COMMIT in that order, followed by a  *)
(* ROLLBACK only when the COMMIT failed; the promise is resolved only with *)
(* the callback's result and only after COMMIT completed; when the COMMIT  *)
(* completed no ROLLBACK is issued and the settled promise is resolved;    *)
(* when it failed the settled promise is rejected.                         *)
C9_CommitOnReturn ==
    \A p \in Txs :
        cbState[p].status = "returned" =>
            LET run == CommittedRun(cbState[p].queries)
            IN  /\ \/ IsPrefix(IssuedSql(p), run)
                   \/ /\ IssuedSql(p) = Append(run, <<"ROLLBACK">>)
                      /\ ~CommitCompleted(p)
                /\ outcome[p].kind = "resolved" =>
                      /\ outcome[p] = Resolved("result")
                      /\ IssuedSql(p) = run
                      /\ CommitCompleted(p)
                /\ CommitCompleted(p) => ~SentAnywhere(p, <<"ROLLBACK">>)
                /\ pc[p] = "settled" =>
                      IF CommitCompleted(p)
                      THEN outcome[p] = Resolved("result")
                      ELSE /\ outcome[p].kind = "rejected"
                           /\ IssuedSql(p) = Append(run, <<"ROLLBACK">>)

\* a PostgresAdapter transaction resolved after its callback awaited a query
\* and returned
C9_Witness ==
    /\ adapter = "PostgresAdapter"
    /\ \E p \in Txs :
          /\ cbState[p] = [status |-> "returned", queries |-> 1]
          /\ outcome[p] = Resolved("result")

\* the positions of the release() calls in the calls p made on its client
Releases(p) == {i \in 1..Len(clientLog[p]) : clientLog[p][i].call = "release"}

(* C10: a PostgresAdapter transaction releases the connection it acquired  *)
(* at most once and on no other connection, has released it when it        *)
(* settles, makes no call on it after the release, makes every call on the *)
(* connection it acquired, and the connections checked out of the pool are *)
(* those of the unsettled transactions, each held by one of them.          *)
C10_Released ==
    adapter = "PostgresAdapter" =>
        /\ \A p \in Txs :
              /\ Cardinality(Releases(p)) <= 1
              /\ \A r \in Releases(p) :
                    /\ pc[p] = "settled"
                    /\ r = Len(clientLog[p])
              /\ \A i \in 1..Len(clientLog[p]) :
                    clientLog[p][i].on = client[p] /\ client[p] # 0
              /\ (pc[p] = "settled" /\ client[p] # 0) => Cardinality(Releases(p)) = 1
              /\ client[p] = 0 => Releases(p) = {}
        /\ checkedOut = {client[p] : p \in {q \in Txs : client[q] # 0 /\ pc[q] # "settled"}}
        /\ \A p, q \in Txs :
              (p # q /\ client[p] # 0 /\ pc[p] # "settled" /\ pc[q] # "settled")
                  => client[p] # client[q]

\* a transaction settled after its ROLLBACK failed
C10_Witness ==
    /\ adapter = "PostgresAdapter"
    /\ \E p \in Txs :
          /\ pc[p] = "settled"
          /\ client[p] # 0
          /\ \E i \in 1..Len(Issued(p)) :
                Issued(p)[i] = [sql |-> <<"ROLLBACK">>, ok |-> FALSE]

(* C11: a transaction that settles after a failure inside it (the callback *)
(* raised, or BEGIN, a query that the callback let propagate, or COMMIT    *)
(* failed) is rejected with that very error, also when the ROLLBACK        *)
(* failed.                                                                 *)
C11_OriginalError ==
    \A p \in Txs :
        (pc[p] = "settled" /\ error[p] # "none") =>
            outcome[p] = RejectedWith(error[p])

-----------------------------------------------------------------------------
(* Reading the calls of a nested scope *)

Markers == {<<"BEGIN">>, <<"COMMIT">>, <<"ROLLBACK">>, <<"SAVEPOINT">>}

\* the transaction markers and release() calls among the calls of a log
MarkersOf(log) == SelectSeq(log, LAMBDA e : e.call = "release" \/ e.sql \in Markers)

\* trx.transaction(inner) is being called, is running or is ending for p
NestedStep(p) == nested[p].status = "running" \/ nested'[p].status = "running"

(* C12: from the call of trx.transaction(inner) on a scoped PostgresAdapter *)
(* to its end no BEGIN, COMMIT, ROLLBACK or SAVEPOINT is issued, no         *)
(* connection is acquired or released, and every call is made on the       *)
(* connection of the outer scope - also when inner fails; and when the     *)
(* outer callback caught that failure and the outer transaction resolved,  *)
(* the statements are BEGIN, then the callbacks' queries with those inner  *)
(* awaited, then the COMMIT that completed, with no ROLLBACK.              *)
C12_Nested ==
    /\ [][\A p \in Txs :
            NestedStep(p) =>
                /\ MarkersOf(clientLog'[p]) = MarkersOf(clientLog[p])
                /\ client' = client
                /\ checkedOut' = checkedOut
                /\ \A i \in (Len(clientLog[p]) + 1)..Len(clientLog'[p]) :
                      /\ clientLog'[p][i].on = client[p]
                      /\ clientLog'[p][i].sql = NestedStatement]_vars
    /\ [](\A p \in Txs :
            (nested[p].status = "raised" /\ outcome[p].kind = "resolved") =>
                LET n == Len(Issued(p))
                IN  /\ n >= 2
                    /\ Issued(p)[1] = [sql |-> <<"BEGIN">>, ok |-> TRUE]
                    /\ Issued(p)[n] = [sql |-> <<"COMMIT">>, ok |-> TRUE]
                    /\ \A i \in 2..(n - 1) : Issued(p)[i].sql \in {Statement, NestedStatement}
                    /\ Cardinality({i \in 2..(n - 1) :
                                      Issued(p)[i] = [sql |-> NestedStatement, ok |-> TRUE]
                                      \/ Issued(p)[i] = [sql |-> NestedStatement, ok |-> FALSE]})
                          >= nested[p].queries)

\* the inner callback completed a query and then failed, the outer callback
\* caught the failure and returned, and the outer transaction committed
C12_Witness ==
    \E p \in Txs :
        /\ nested[p] = [status |-> "raised", queries |-> 1]
        /\ \E i \in 1..Len(Issued(p)) : Issued(p)[i] = [sql |-> NestedStatement, ok |-> TRUE]
        /\ cbState[p].status = "returned"
        /\ outcome[p] = Resolved("result")

-----------------------------------------------------------------------------
(* Filter values *)

\* an object carrying at least one of the operator keys
IsOperatorObject(val) ==
    /\ val.kind = "object"
    /\ \E i \in 1..Len(OperatorKeys) : HasKey(val.entries, OperatorKeys[i][1])

\* a SELECT builder on which nothing has been called yet
Fresh ==
    /\ _operation = "SELECT"
    /\ _select = <<>>
    /\ _where = <<>>
    /\ _joins = <<>>
    /\ _limit = <<>>
    /\ _offset = <<>>

(* C13: where({col: v}) on a fresh SELECT builder, for v that is neither   *)
(* null nor an object with operator keys, leaves exactly the clause        *)
(* AND col = v, and toSQL() is then SELECT * FROM <table> WHERE <col> = $1 *)
(* with parameters [v].                                                    *)
C13_Equality ==
    [][(/\ Fresh
        /\ call'.name = "where"
        /\ Len(call'.arg) = 1
        /\ call'.arg[1].val.kind # "null"
        /\ ~IsOperatorObject(call'.arg[1].val))
       => LET col == call'.arg[1].key
              v == call'.arg[1].val
          IN  /\ _where' = <<Clause("AND", col, "=", v)>>
              /\ toSQL(this') =
                    SqlResult(<<"SELECT", " ", "*", " ", "FROM", " ">> \o _quote(_table)
                              \o <<" ", "WHERE", " ">> \o _quote(col)
                              \o <<" ", "=", " ", "$1">>,
                              <<v>>)]_vars

(* C14: where({col: {not: null}}) or orWhere({col: {not: null}}) on a      *)
(* fresh SELECT builder compiles to SELECT * FROM <table> WHERE <col> IS   *)
(* NOT NULL with no parameter.                                             *)
C14_IsNotNull ==
    [][(/\ Fresh
        /\ call'.name \in {"where", "orWhere"}
        /\ Len(call'.arg) = 1
        /\ call'.arg[1].val = Obj(<<Prop("not", Null)>>))
       => toSQL(this') =
              SqlResult(<<"SELECT", " ", "*", " ", "FROM", " ">> \o _quote(_table)
                        \o <<" ", "WHERE", " ">> \o _quote(call'.arg[1].key)
                        \o <<" ", "IS", " ", "NOT", " ", "NULL">>,
                        <<>>)]_vars

-----------------------------------------------------------------------------
(* RETURNING *)

EndsWithText(text, tail) ==
    Len(tail) <= Len(text) /\ SubSeq(text, Len(text) - Len(tail) + 1, Len(text)) = tail

(* C15: a compiled INSERT, UPDATE or DELETE ends with ` RETURNING *`,      *)
(* whatever select() was given, and a compiled SELECT has no RETURNING.    *)
C15_ReturningStar ==
    Compiled =>
        IF _operation = "SELECT"
        THEN ~Includes(ret.sql, "RETURNING")
        ELSE EndsWithText(ret.sql, <<" ", "RETURNING", " ", "*">>)

-----------------------------------------------------------------------------
(* Build-time errors *)

\* INSERT with no payload, an empty sequence, or a first record without keys
InsertWithoutColumns ==
    /\ _operation = "INSERT"
    /\ \/ _data.kind = "null"
       \/ Len(Records(_data)) = 0
       \/ Len(OwnProps(Records(_data)[1])) = 0

\* UPDATE with no payload or a payload without keys
UpdateWithoutColumns ==
    /\ _operation = "UPDATE"
    /\ (_data.kind = "null" \/ Len(OwnProps(_data)) = 0)

\* how a compiled statement of the operation begins
StatementHead ==
    CASE _operation = "SELECT" -> <<"SELECT", " ">>
      [] _operation = "INSERT" -> <<"INSERT", " ", "INTO", " ">> \o _quote(_table) \o <<" ", "(">>
      [] _operation = "UPDATE" -> <<"UPDATE", " ">> \o _quote(_table) \o <<" ", "SET", " ">>
      [] _operation = "DELETE" -> <<"DELETE", " ", "FROM", " ">> \o _quote(_table)

(* C16: on an INSERT with no payload, an empty sequence or a first record  *)
(* without keys, and on an UPDATE with no payload or a payload without     *)
(* keys, toSQL() throws and returns nothing, execute() and then() reject,  *)
(* the adapter's log gains no entry and the builder is left as it was; on  *)
(* every other builder that is not a write with joins, toSQL() returns a   *)
(* statement that begins as its operation does and has as many             *)
(* placeholders as parameters.                                             *)
C16_BuildTimeErrors ==
    [][(call'.name \in {"toSQL", "execute", "then"} /\ call' # call) =>
          IF InsertWithoutColumns \/ UpdateWithoutColumns
          THEN /\ call'.name = "toSQL" => (ret'.kind = "error" /\ DOMAIN ret' = {"kind", "msg"})
               /\ call'.name # "toSQL" => ret'.kind = "rejected"
               /\ logs' = logs
               /\ this' = this
          ELSE (~WriteWithJoins /\ call'.name = "toSQL") =>
                  /\ ret'.kind = "sql"
                  /\ StartsWithText(ret'.sql, StatementHead)
                  /\ Len(PlaceholdersIn(ret'.sql)) = Len(ret'.values)
                  /\ this' = this]_vars

\* toSQL() threw on an UPDATE whose payload has no keys
C16_Witness ==
    /\ call.name = "toSQL"
    /\ ret.kind = "error"
    /\ _operation = "UPDATE"
    /\ _data = Obj(<<>>)

-----------------------------------------------------------------------------
(* Identifier quoting *)

\* an identifier that is emitted untouched
Untouched(identifier) ==
    \/ identifier = <<"*">>
    \/ Includes(identifier, " ")
    \/ Includes(identifier, "(")
    \/ StartsWith(identifier, Q)

\* an identifier as the compiled text is to show it
Quoted(identifier) ==
    IF Untouched(identifier) THEN identifier
    ELSE LET segments == Split(identifier, ".")
         IN  Join([i \in 1..Len(segments) |-> <<Q>> \o segments[i] \o <<Q>>], <<".">>)

QuotedList(identifiers) ==
    Join([i \in 1..Len(identifiers) |-> Quoted(identifiers[i])], <<",", " ">>)

QuotedJoin(j) ==
    <<" ", j.type, " ", "JOIN", " ">> \o Quoted(j.table) \o <<" ", "ON", " ">>
    \o Quoted(j.on.col1) \o <<" ", j.on.op, " ">> \o Quoted(j.on.col2)

\* the statement up to its WHERE clause or VALUES list, every identifier quoted
QuotedHead ==
    CASE _operation = "SELECT" ->
            <<"SELECT", " ">>
            \o (IF Len(_select) > 0 THEN QuotedList(_select) ELSE <<"*">>)
            \o <<" ", "FROM", " ">> \o Quoted(_table)
            \o Flatten([i \in 1..Len(_joins) |-> QuotedJoin(_joins[i])])
      [] _operation = "INSERT" ->
            <<"INSERT", " ", "INTO", " ">> \o Quoted(_table) \o <<" ", "(">>
            \o QuotedList(Keys(OwnProps(Records(_data)[1]))) \o <<")", " ", "VALUES">>
      [] _operation = "UPDATE" ->
            LET keys == Keys(OwnProps(_data))
            IN  <<"UPDATE", " ">> \o Quoted(_table) \o <<" ", "SET", " ">>
                \o Join([i \in 1..Len(keys) |->
                            Quoted(keys[i]) \o <<" ", "=", " ", Placeholder(i)>>],
                        <<",", " ">>)
      [] _operation = "DELETE" ->
            <<"DELETE", " ", "FROM", " ">> \o Quoted(_table)

\* a filter that is rendered with its column
RendersColumn(clause) ==
    clause.operator \in {"IN", "NOT IN"} =>
        (clause.value.kind = "array" /\ Len(clause.value.items) > 0)

-----------------------------------------------------------------------------
(* createTables: the CREATE TABLE statement of a table schema *)

\* the largest number of columns of a table
MaxColumns == 2

\* a column type: a constructor (Number, String, Boolean, Date) or a marker
\* instance (JsonType, UuidType, EnumType, ArrayType)
Type(brand) == [kind |-> "type", brand |-> brand]
EnumType(values) == [kind |-> "type", brand |-> "enum", values |-> values]
ArrayType(itemType) == [kind |-> "type", brand |-> "array", itemType |-> itemType]

\* the type token of a column type; <<>> for a type that has none
RECURSIVE TypeToken(_)
TypeToken(type) ==
    CASE type.brand = "number" -> <<"INTEGER">>
      [] type.brand = "string" -> <<"TEXT">>
      [] type.brand = "boolean" -> <<"BOOLEAN">>
      [] type.brand = "date" -> <<"TIMESTAMP">>
      [] type.brand = "json" -> <<"JSONB">>
      [] type.brand = "uuid" -> <<"UUID">>
      [] type.brand = "enum" -> <<"TEXT">>
      [] type.brand = "array" ->
            IF TypeToken(type.itemType) = <<>> THEN <<>>
            ELSE TypeToken(type.itemType) \o <<"[]">>
      [] OTHER -> <<>>

\* a column is a bare type or a definition { type, nullable?, primaryKey? }
TypeOf(column) ==
    IF column.kind = "object" THEN Get(column.entries, "type") ELSE column

Flag(column, key) ==
    /\ column.kind = "object"
    /\ HasKey(column.entries, key)
    /\ Get(column.entries, key)

\* CHECK (<col> IN ('v1', 'v2', ...))
CheckIn(name, values) ==
    <<" ", "CHECK", " ", "(">> \o name \o <<" ", "IN", " ", "(">>
    \o Join([i \in 1..Len(values) |-> <<"'", values[i], "'">>], <<",", " ">>)
    \o <<")", ")">>

\* ColumnDDL appending NOT NULL whatever the definition says
ColumnDDLNotNull(name, column) ==
    name \o <<" ">> \o TypeToken(TypeOf(column))
    \o <<" ", "NOT", " ", "NULL">>
    \o (IF Flag(column, "primaryKey") THEN <<" ", "PRIMARY", " ", "KEY">> ELSE <<>>)
    \o (IF TypeOf(column).brand = "enum"
        THEN CheckIn(name, TypeOf(column).values) ELSE <<>>)

\* the text of one column
ColumnDDL(name, column) ==
    name \o <<" ">> \o TypeToken(TypeOf(column))
    \o (IF Flag(column, "nullable") THEN <<>> ELSE <<" ", "NOT", " ", "NULL">>)
    \o (IF Flag(column, "primaryKey") THEN <<" ", "PRIMARY", " ", "KEY">> ELSE <<>>)
    \o (IF TypeOf(column).brand = "enum"
        THEN CheckIn(name, TypeOf(column).values) ELSE <<>>)

\* the statement of a table, or the error of a column type without a token
CreateTableSQL(table, columns) ==
    IF \E i \in 1..Len(columns) : TypeToken(TypeOf(columns[i].val)) = <<>>
    THEN Thrown("Unsupported column type")
    ELSE SqlResult(
             <<"CREATE", " ", "TABLE", " ", "IF", " ", "NOT", " ", "EXISTS", " ">>
             \o table \o <<" ", "(">>
             \o Join([i \in 1..Len(columns) |->
                         ColumnDDL(columns[i].key, columns[i].val)], <<",", " ">>)
             \o <<")">>,
             <<>>)

\* the column types of the schemas
TypeInputs ==
    { Type("number"), Type("string"), Type("boolean"), Type("date"),
      Type("json"), Type("uuid"), EnumType(<<"admin", "user", "guest">>),
      ArrayType(Type("string")), ArrayType(Type("number")) }

\* the columns of the schemas: bare types, definitions, and one value that is
\* no column type
ColumnInputs ==
    TypeInputs
    \cup { Obj(<<Prop("type", Type("string")), Prop("nullable", TRUE)>>),
           Obj(<<Prop("type", ArrayType(Type("string"))), Prop("nullable", TRUE)>>),
           Obj(<<Prop("type", EnumType(<<"admin", "user", "guest">>)),
                 Prop("nullable", TRUE)>>),
           Obj(<<Prop("type", Type("date")), Prop("nullable", FALSE)>>),
           Obj(<<Prop("type", Type("number")), Prop("primaryKey", TRUE)>>),
           Type("symbol") }

\* the name of the i-th declared column
ColumnName(i) == <<"c" \o ToString(i)>>

\* the table schemas: up to MaxColumns columns in declaration order
SchemaInputs ==
    UNION { { [i \in 1..n |-> Prop(ColumnName(i), f[i])] :
                f \in [1..n -> ColumnInputs] } : n \in 1..MaxColumns }

\* db.createTables() on a database of one table over a DummyAdapter
createTables ==
    /\ call.name = "createDB"
    /\ call' = CallOf("createTables", call.arg)
    /\ LET r == CreateTableSQL(call.arg.table, call.arg.columns)
       IN  IF r.kind = "error"
           THEN ret' = Rejected(r.msg) /\ UNCHANGED <<logs, calls>>
           ELSE /\ logs' = Append(logs, [sql |-> r.sql, params |-> <<>>])
                /\ calls' = calls + 1
                /\ ret' = Resolved(Undefined)
    /\ UNCHANGED <<builderVars, adapter, txVars, other>>

\* after createDB(schema, adapter)
DDLInit ==
    /\ adapter = "DummyAdapter"
    /\ TxIdle
    /\ _table \in Tables
    /\ _operation = "SELECT"
    /\ _data = Null
    /\ _select = <<>>
    /\ _where = <<>>
    /\ _joins = <<>>
    /\ _limit = <<>>
    /\ _offset = <<>>
    /\ _returning = FALSE
    /\ \E table \in {<<"events">>}, columns \in SchemaInputs :
          call = CallOf("createDB", [table |-> table, columns |-> columns])
    /\ ret = [kind |-> "none"]
    /\ logs = <<>>
    /\ calls = 0
    /\ other = Constructed(<<"users">>)

DDLNext == createTables

DDLSpec == DDLInit /\ [][DDLNext]_vars

\* the type token a column type is to get
TokenFor(type) ==
    CASE type.brand = "number" -> <<"INTEGER">>
      [] type.brand = "string" -> <<"TEXT">>
      [] type.brand = "boolean" -> <<"BOOLEAN">>
      [] type.brand = "date" -> <<"TIMESTAMP">>
      [] type.brand = "json" -> <<"JSONB">>
      [] type.brand = "uuid" -> <<"UUID">>
      [] type.brand = "enum" -> <<"TEXT">>
      [] type.brand = "array" /\ type.itemType.brand = "number" -> <<"INTEGER", "[]">>
      [] type.brand = "array" /\ type.itemType.brand = "string" -> <<"TEXT", "[]">>

ContainsText(text, part) ==
    \E i \in 1..(Len(text) - Len(part) + 1) : SubSeq(text, i, i + Len(part) - 1) = part

\* the part of a statement from the first mention of the i-th column up to
\* the first mention of the next one
ColumnText(text, columns, i) ==
    LET from == FirstIndex(text, columns[i].key[1])
        to == IF i < Len(columns)
              THEN FirstIndex(text, columns[i + 1].key[1]) - 1
              ELSE Len(text)
    IN  SubSeq(text, from, to)

\* the single-quoted values of an enum, in declared order
QuotedValues(values) ==
    Flatten([i \in 1..Len(values) |->
                (IF i = 1 THEN <<>> ELSE <<",", " ">>) \o <<"'", values[i], "'">>])

(* C18: the statement logged by createTables is one CREATE TABLE IF NOT    *)
(* EXISTS <table> (...) that lists the columns in declaration order, each  *)
(* as its name and the type token of its type, with NOT NULL exactly when  *)
(* the definition does not set nullable to true, and for an enum a CHECK   *)
(* (<col> IN (...)) over its single-quoted values in declared order.       *)
C18_CreateTable ==
    (call.name = "createTables" /\ ret.kind = "resolved") =>
        LET columns == call.arg.columns
            text == logs[Len(logs)].sql
        IN  /\ Len(logs) = 1
            /\ StartsWithText(text, <<"CREATE", " ", "TABLE", " ", "IF", " ", "NOT", " ",
                                      "EXISTS", " ">> \o call.arg.table \o <<" ", "(">>)
            /\ text[Len(text)] = ")"
            /\ Len(SelectSeq(text, LAMBDA atom : atom = "CREATE")) = 1
            /\ \A i \in 1..Len(columns) :
                  LET column == ColumnText(text, columns, i)
                      type == TypeOf(columns[i].val)
                      head == columns[i].key \o <<" ">> \o TokenFor(type)
                  IN  /\ FirstIndex(text, columns[i].key[1]) > 0
                      /\ i > 1 => FirstIndex(text, columns[i - 1].key[1])
                                      < FirstIndex(text, columns[i].key[1])
                      /\ StartsWithText(column, head)
                      /\ column[Len(head) + 1] \in {" ", ",", ")"}
                      /\ ContainsText(column, <<" ", "NOT", " ", "NULL">>)
                            <=> ~Flag(columns[i].val, "nullable")
                      /\ type.brand = "enum" =>
                            ContainsText(column,
                                <<"CHECK", " ", "(">> \o columns[i].key
                                \o <<" ", "IN", " ", "(">> \o QuotedValues(type.values)
                                \o <<")", ")">>)
                      /\ type.brand # "enum" => ~ContainsText(column, <<"CHECK">>)

\* a statement was logged for a table whose first column is a nullable
\* array and whose second column is an enum
C18_Witness ==
    /\ call.name = "createTables"
    /\ ret.kind = "resolved"
    /\ Len(call.arg.columns) = 2
    /\ Flag(call.arg.columns[1].val, "nullable")
    /\ TypeOf(call.arg.columns[1].val).brand = "array"
    /\ TypeOf(call.arg.columns[2].val).brand = "enum"

-----------------------------------------------------------------------------
(* Operator objects *)

\* the recognized keys in the order their clauses are to appear
RecognizedKeys == <<"in", "notIn", "like", "ilike", "gt", "lt", "gte", "lte", "not">>

OperatorFor(key) ==
    CASE key = "in" -> "IN"
      [] key = "notIn" -> "NOT IN"
      [] key = "like" -> "LIKE"
      [] key = "ilike" -> "ILIKE"
      [] key = "gt" -> ">"
      [] key = "lt" -> "<"
      [] key = "gte" -> ">="
      [] key = "lte" -> "<="
      [] key = "not" -> "!="

ConnectiveOf(name) == IF name = "where" THEN "AND" ELSE "OR"

-----------------------------------------------------------------------------
(* Order of the filters *)

\* the connectives of a WHERE clause, in text order
ConnectivesIn(text) == SelectSeq(WherePart(text), LAMBDA atom : atom \in {"AND", "OR"})

\* every opening parenthesis of the WHERE clause opens the list of an IN
OnlyListParentheses(text) ==
    LET part == WherePart(text)
    IN  \A i \in 1..Len(part) :
            part[i] = "(" => (i > 2 /\ part[i - 1] = " " /\ part[i - 2] = "IN")

(* C20: no call removes or reorders a filter: where / orWhere only append  *)
(* after the filters already there and every other call leaves them as     *)
(* they are. A compiled SELECT, UPDATE or DELETE lists the filters in that *)
(* order: the first without a connective, whatever call added it, every    *)
(* later one after its own connective, without grouping parentheses, and   *)
(* the filters' values follow the payload's in the same order, numbered    *)
(* consecutively.                                                          *)
C20_FilterOrder ==
    /\ [][/\ Len(_where') >= Len(_where)
          /\ SubSeq(_where', 1, Len(_where)) = _where
          /\ call'.name \notin {"where", "orWhere"} => _where' = _where]_vars
    /\ [](( /\ call.name = "toSQL"
            /\ Compiled
            /\ _operation # "INSERT"
            /\ Len(_where) > 0 ) =>
           LET part == WherePart(ret.sql)
               conditions == ConditionsIn(ret.sql)
               before == Len(PayloadValues(this))
           IN  /\ Len(conditions) = Len(_where)
               /\ part[1] \notin {"AND", "OR"}
               /\ ConnectivesIn(ret.sql) =
                     [i \in 1..(Len(_where) - 1) |-> _where[i + 1].type]
               /\ \A i \in 1..Len(_where) :
                     /\ IF RendersColumn(_where[i])
                        THEN StartsWithText(conditions[i],
                                            Quoted(_where[i].column) \o <<" ">>)
                        ELSE conditions[i] =
                                (IF _where[i].operator = "IN" THEN <<"1=0">> ELSE <<"1=1">>)
                     /\ Len(PlaceholdersIn(conditions[i])) = Len(BoundBy(_where[i]))
               /\ OnlyListParentheses(ret.sql)
               /\ PlaceholdersIn(part) =
                     [i \in 1..Len(FilterValues(_where)) |-> Placeholder(before + i)]
               /\ ret.values = PayloadValues(this) \o FilterValues(_where))

\* a compiled statement whose first filter came from orWhere and whose
\* later filters came from where
C20_Witness ==
    /\ call.name = "toSQL"
    /\ Compiled
    /\ _operation # "INSERT"
    /\ Len(_where) >= 2
    /\ _where[1].type = "OR"
    /\ _where[Len(_where)].type = "AND"
    /\ Len(FilterValues(_where)) >= 2

-----------------------------------------------------------------------------
(* The parts of a SELECT *)

KindOf(name) ==
    CASE name = "innerJoin" -> "INNER"
      [] name = "leftJoin" -> "LEFT"
      [] name = "rightJoin" -> "RIGHT"
      [] name = "fullJoin" -> "FULL"

\* the positions of an atom in a text, in increasing order
RECURSIVE PositionsFrom(_, _, _)
PositionsFrom(text, atom, i) ==
    IF i > Len(text) THEN <<>>
    ELSE (IF text[i] = atom THEN <<i>> ELSE <<>>) \o PositionsFrom(text, atom, i + 1)

Positions(text, atom) == PositionsFrom(text, atom, 1)

\* ` <KIND> JOIN <table> ON <col1> <op> <col2>` of the i-th join
JoinAt(text, i) ==
    LET at == Positions(text, "JOIN")[i]
        to == IF i < Len(Positions(text, "JOIN"))
              THEN Positions(text, "JOIN")[i + 1] - 4
              ELSE LET stops == {k \in at..Len(text) : text[k] \in {"WHERE", "LIMIT", "OFFSET"}}
                   IN  IF stops = {} THEN Len(text)
                       ELSE (CHOOSE k \in stops : \A l \in stops : k <= l) - 2
    IN  SubSeq(text, at - 3, to)

\* a position, or past the end of the text when the atom is absent
Where(text, atom) == IF Includes(text, atom) THEN FirstIndex(text, atom) ELSE Len(text) + 1

(* C21: a join method appends one join of its kind (innerJoin INNER,       *)
(* leftJoin LEFT, rightJoin RIGHT, fullJoin FULL) after the joins already  *)
(* there. A compiled SELECT has its parts in the order projection, FROM    *)
(* table, joins, WHERE, LIMIT, OFFSET; it has one join text per join, in   *)
(* that order, each ` <KIND> JOIN <table> ON <col1> <op> <col2>`; and its  *)
(* parameters are those of the filters alone.                              *)
C21_SelectOrder ==
    /\ [][call'.name \in {"innerJoin", "leftJoin", "rightJoin", "fullJoin"} =>
             _joins' = Append(_joins,
                              [type |-> KindOf(call'.name), table |-> call'.arg.table,
                               on |-> [col1 |-> call'.arg.col1, op |-> call'.arg.operator,
                                       col2 |-> call'.arg.col2]])]_vars
    /\ []((call.name = "toSQL" /\ Compiled /\ _operation = "SELECT") =>
            LET text == ret.sql
                from == FirstIndex(text, "FROM")
                joinsAt == Positions(text, "JOIN")
            IN  /\ text[1] = "SELECT"
                /\ from > 1
                /\ SubSeq(text, from, from + 1 + Len(Quoted(_table))) =
                      <<"FROM", " ">> \o Quoted(_table)
                /\ Len(joinsAt) = Len(_joins)
                /\ \A i \in 1..Len(_joins) :
                      /\ joinsAt[i] > from
                      /\ joinsAt[i] < Where(text, "WHERE")
                      /\ joinsAt[i] < Where(text, "LIMIT")
                      /\ joinsAt[i] < Where(text, "OFFSET")
                      /\ JoinAt(text, i) =
                            <<" ", _joins[i].type, " ", "JOIN", " ">>
                            \o Quoted(_joins[i].table) \o <<" ", "ON", " ">>
                            \o Quoted(_joins[i].on.col1) \o <<" ", _joins[i].on.op, " ">>
                            \o Quoted(_joins[i].on.col2)
                      /\ PlaceholdersIn(JoinAt(text, i)) = <<>>
                /\ Includes(text, "WHERE") <=> Len(_where) > 0
                /\ Includes(text, "WHERE") =>
                      /\ from < FirstIndex(text, "WHERE")
                      /\ FirstIndex(text, "WHERE") < Where(text, "LIMIT")
                      /\ FirstIndex(text, "WHERE") < Where(text, "OFFSET")
                /\ Includes(text, "LIMIT") =>
                      /\ from < FirstIndex(text, "LIMIT")
                      /\ FirstIndex(text, "LIMIT") < Where(text, "OFFSET")
                /\ Includes(text, "OFFSET") => from < FirstIndex(text, "OFFSET")
                /\ ret.values = FilterValues(_where))

\* a compiled SELECT with a right join followed by an inner join
C21_Witness ==
    /\ call.name = "toSQL"
    /\ Compiled
    /\ _operation = "SELECT"
    /\ Len(_joins) = 2
    /\ _joins[1].type = "RIGHT"
    /\ _joins[2].type = "INNER"

-----------------------------------------------------------------------------
(* LIMIT and OFFSET *)

\* the atoms that follow a keyword and its space, up to the next space
AfterKeyword(text, keyword) ==
    LET at == FirstIndex(text, keyword)
        spaces == {k \in (at + 2)..Len(text) : text[k] = " "}
        to == IF spaces = {} THEN Len(text)
              ELSE (CHOOSE k \in spaces : \A l \in spaces : k <= l) - 1
    IN  SubSeq(text, at + 2, to)

(* C22: only limit(n) sets the limit and only offset(m) sets the offset,   *)
(* and nothing unsets them. A compiled SELECT has ` LIMIT n` exactly when  *)
(* a limit is set and ` OFFSET m` exactly when an offset is set, 0         *)
(* included, with n and m written as literals and its parameters those of  *)
(* the filters alone; on an INSERT, UPDATE or DELETE toSQL() returns or    *)
(* throws what it would without the limit and the offset, and a returned   *)
(* text has neither keyword.                                               *)
C22_LimitOffset ==
    /\ [][/\ _limit' # _limit => (call'.name = "limit" /\ _limit' = <<call'.arg>>)
          /\ _offset' # _offset => (call'.name = "offset" /\ _offset' = <<call'.arg>>)
          /\ call'.name = "limit" => _limit' = <<call'.arg>>
          /\ call'.name = "offset" => _offset' = <<call'.arg>>]_vars
    /\ [](call.name = "toSQL" =>
            IF _operation = "SELECT"
            THEN /\ Compiled
                 /\ Includes(ret.sql, "LIMIT") <=> _limit # <<>>
                 /\ Includes(ret.sql, "OFFSET") <=> _offset # <<>>
                 /\ Len(Positions(ret.sql, "LIMIT")) <= 1
                 /\ Len(Positions(ret.sql, "OFFSET")) <= 1
                 /\ _limit # <<>> =>
                       AfterKeyword(ret.sql, "LIMIT") = <<ToString(_limit[1])>>
                 /\ _offset # <<>> =>
                       AfterKeyword(ret.sql, "OFFSET") = <<ToString(_offset[1])>>
                 /\ ret.values = FilterValues(_where)
                 /\ Len(PlaceholdersIn(ret.sql)) = Len(ret.values)
            ELSE /\ ret = toSQL([this EXCEPT !.limit = <<>>, !.offset = <<>>])
                 /\ Compiled => (~Includes(ret.sql, "LIMIT") /\ ~Includes(ret.sql, "OFFSET")))

\* a compiled SELECT with limit 0 and offset 0
C22_Witness ==
    /\ call.name = "toSQL"
    /\ Compiled
    /\ _operation = "SELECT"
    /\ _limit = <<0>>
    /\ _offset = <<0>>

-----------------------------------------------------------------------------
(* Two builders over one adapter *)

\* the chainable methods as functions of a builder's fields
Apply(b, name, arg) ==
    CASE name = "insert" ->
            [b EXCEPT !.operation = "INSERT", !.data = arg, !.returning = TRUE]
      [] name = "update" ->
            [b EXCEPT !.operation = "UPDATE", !.data = arg, !.returning = TRUE]
      [] name = "delete" -> [b EXCEPT !.operation = "DELETE", !.returning = TRUE]
      [] name = "innerJoin" ->
            [b EXCEPT !.joins = Append(b.joins,
                                       [type |-> "INNER", table |-> arg.table,
                                        on |-> [col1 |-> arg.col1, op |-> arg.operator,
                                                col2 |-> arg.col2]])]
      [] name = "select" -> [b EXCEPT !.select = arg]
      [] name = "where" -> [b EXCEPT !.where = _addWhere(b.where, "AND", arg)]
      [] name = "orWhere" -> [b EXCEPT !.where = _addWhere(b.where, "OR", arg)]
      [] name = "limit" -> [b EXCEPT !.limit = <<arg>>]
      [] name = "offset" -> [b EXCEPT !.offset = <<arg>>]

\* the tables of the second builder
PairTables == {<<"users">>, <<"posts">>}

PairWhereInputs ==
    { <<Prop(<<"id">>, A)>>,
      <<Prop(<<"status">>, Obj(<<Prop("in", Arr(<<A, B>>))>>))>> }

PairInsertInputs == { Obj(<<Prop(<<"name">>, A), Prop(<<"email">>, B)>>) }

PairUpdateInputs == { Obj(<<Prop(<<"isActive">>, B)>>) }

PairSelectInputs == { <<<<"id">>, <<"name">>>> }

\* the chainable calls made on either builder
PairCalls ==
    { CallOf("insert", data) : data \in PairInsertInputs }
    \cup { CallOf("update", data) : data \in PairUpdateInputs }
    \cup { CallOf("delete", <<>>) }
    \cup { CallOf("innerJoin", j) : j \in JoinInputs }
    \cup { CallOf("select", columns) : columns \in PairSelectInputs }
    \cup { CallOf("where", conditions) : conditions \in PairWhereInputs }
    \cup { CallOf("orWhere", conditions) : conditions \in PairWhereInputs }
    \cup { CallOf("limit", 10), CallOf("offset", 5) }

\* the n-th call of the run, made on the second builder
OtherCall(name, arg, n) == [name |-> name, arg |-> arg, at |-> n]

\* a chainable method called on the second builder
OtherCalled(c) ==
    /\ calls < MaxCalls
    /\ calls' = calls + 1
    /\ other' = [state |-> Apply(other.state, c.name, c.arg),
                 call |-> OtherCall(c.name, c.arg, calls + 1),
                 ret |-> This]
    /\ UNCHANGED <<builderVars, call, ret, logs, txVars>>

\* toSQL() of the second builder continuing a parameter list that it shares
\* with the first builder's last toSQL()
OtherToSQLSharedValues ==
    /\ LET shared == IF ret.kind = "sql" THEN ret.values ELSE <<>>
           own == toSQL(other.state)
           w == buildWhere(other.state.where, shared)
       IN  other' = [other EXCEPT
                        !.call = OtherCall("toSQL", <<>>, calls),
                        !.ret = IF own.kind = "sql" /\ other.state.operation = "SELECT"
                                THEN SqlResult(<<"SELECT", " ", "*", " ", "FROM", " ">>
                                               \o _quote(other.state.table) \o w.text,
                                               w.values)
                                ELSE own]
    /\ UNCHANGED <<builderVars, call, ret, logs, calls, txVars>>

\* toSQL() called on the second builder
OtherToSQL ==
    /\ other' = [other EXCEPT !.call = OtherCall("toSQL", <<>>, calls),
                              !.ret = toSQL(other.state)]
    /\ UNCHANGED <<builderVars, call, ret, logs, calls, txVars>>

\* after db.query(t1) and db.query(t2) on one database handle
PairInit ==
    /\ adapter = "DummyAdapter"
    /\ TxIdle
    /\ _table \in Tables
    /\ _operation = "SELECT"
    /\ _data = Null
    /\ _select = <<>>
    /\ _where = <<>>
    /\ _joins = <<>>
    /\ _limit = <<>>
    /\ _offset = <<>>
    /\ _returning = FALSE
    /\ call = CallOf("constructor", <<>>)
    /\ ret = [kind |-> "none"]
    /\ logs = <<>>
    /\ calls = 0
    /\ \E table \in PairTables : other = Constructed(table)

PairNext ==
    \/ \E data \in PairInsertInputs : insert(data)
    \/ \E data \in PairUpdateInputs : update(data)
    \/ delete
    \/ \E j \in JoinInputs : innerJoin(j)
    \/ \E columns \in PairSelectInputs : select(columns)
    \/ \E conditions \in PairWhereInputs : where(conditions)
    \/ \E conditions \in PairWhereInputs : orWhere(conditions)
    \/ limit(10)
    \/ offset(5)
    \/ CallToSQL
    \/ \E c \in PairCalls : OtherCalled(c)
    \/ OtherToSQL

PairSpec == PairInit /\ [][PairNext]_vars

\* a result whose placeholders are $1, $2, ... one per parameter of its own
NumberedFromOne(r) ==
    r.kind = "sql" =>
        PlaceholdersIn(r.sql) = [i \in 1..Len(r.values) |-> Placeholder(i)]

(* C23: a call on one builder leaves the other builder's fields, its last  *)
(* result and what its toSQL() would return as they were, whichever of the *)
(* two the call was made on; and every toSQL() result of either builder is *)
(* that of its own fields alone, with placeholders $1, $2, ... one per     *)
(* parameter of its own list.                                              *)
C23_Independent ==
    /\ [][/\ other'.call = other.call =>
                (other' = other /\ toSQL(other'.state) = toSQL(other.state))
          /\ other'.call # other.call =>
                /\ this' = this
                /\ toSQL(this') = toSQL(this)
                /\ <<call, ret>>' = <<call, ret>>]_vars
    /\ [](/\ call.name = "toSQL" => (ret = toSQL(this) /\ NumberedFromOne(ret))
          /\ other.call.name = "toSQL" =>
                (other.ret = toSQL(other.state) /\ NumberedFromOne(other.ret)))

\* both builders were filtered and compiled, the second one last
C23_Witness ==
    /\ call.name = "toSQL"
    /\ Compiled
    /\ Len(ret.values) > 0
    /\ other.call.name = "toSQL"
    /\ other.ret.kind = "sql"
    /\ Len(other.ret.values) > 0
    /\ other.state.table # _table

-----------------------------------------------------------------------------
(* execute() and then() *)

(* C24: execute() and then() compile the builder as toSQL() does; if that  *)
(* throws they reject with its error and the adapter's log gains nothing;  *)
(* otherwise the log gains exactly one entry, the compiled text with the   *)
(* compiled parameters, after the entries already there, and the promise   *)
(* resolves with the rows the adapter returned; the builder is left as it  *)
(* was, so that a second execute() sends the statement again.              *)
C24_ExecuteOnce ==
    [][call'.name \in {"execute", "then"} =>
          /\ this' = this
          /\ IF toSQL(this).kind = "error"
             THEN /\ logs' = logs
                  /\ ret'.kind = "rejected"
                  /\ ret'.msg = toSQL(this).msg
             ELSE /\ Len(logs') = Len(logs) + 1
                  /\ SubSeq(logs', 1, Len(logs)) = logs
                  /\ logs'[Len(logs')].sql = toSQL(this).sql
                  /\ logs'[Len(logs')].params = toSQL(this).values
                  /\ ret'.kind = "rows"
                  /\ ret'.rows = <<>>]_vars

\* the same builder was executed twice and the adapter got the statement twice
C24_Witness ==
    /\ call.name = "execute"
    /\ ret.kind = "rows"
    /\ Len(logs) = 2
    /\ logs[1] = logs[2]
    /\ logs[2].sql = toSQL(this).sql

-----------------------------------------------------------------------------
(* Operation and returning flag *)

WriteMethods == {"insert", "update", "delete"}

OperationOf(name) ==
    CASE name = "insert" -> "INSERT"
      [] name = "update" -> "UPDATE"
      [] name = "delete" -> "DELETE"

(* C25: the returning flag is set exactly when the operation is not        *)
(* SELECT; insert, update and delete set the operation to their own and    *)
(* insert and update store their payload; every other call leaves the      *)
(* operation, the payload and the returning flag as they were; an          *)
(* operation that is not SELECT never becomes SELECT again.                *)
C25_Operation ==
    /\ [](_returning <=> _operation # "SELECT")
    /\ [][/\ call'.name \in WriteMethods =>
                /\ _operation' = OperationOf(call'.name)
                /\ _data' = IF call'.name = "delete" THEN _data ELSE call'.arg
          /\ call'.name \notin WriteMethods =>
                <<_operation, _data, _returning>>' = <<_operation, _data, _returning>>
          /\ _operation # "SELECT" => _operation' # "SELECT"]_vars

\* select was called on an UPDATE, which stayed an UPDATE that returns rows
C25_Witness ==
    /\ call.name = "select"
    /\ Len(_select) > 0
    /\ _operation = "UPDATE"
    /\ _data.kind = "object"
    /\ _returning

-----------------------------------------------------------------------------
(* _quote applied to what it returned *)

\* the longest identifier, in characters
MaxIdentifierLength == 3

\* the characters of the identifiers: a letter and the ones _quote looks for
IdentifierChars == {"a", ".", "*", " ", "(", Q}

IdentifierInputs ==
    UNION { [1..n -> IdentifierChars] : n \in 0..MaxIdentifierLength }

QuotedText(text) == [kind |-> "quoted", text |-> text]

\* this._quote(identifier)
Quote ==
    /\ ret.kind = "none"
    /\ ret' = QuotedText(_quote(call.arg))
    /\ UNCHANGED <<builderVars, call, logs, calls, txVars, other>>

\* this._quote(<what the last call returned>)
QuoteAgain ==
    /\ ret.kind = "quoted"
    /\ call' = CallOf("_quote", ret.text)
    /\ ret' = QuotedText(_quote(ret.text))
    /\ UNCHANGED <<builderVars, logs, calls, txVars, other>>

QuoteInit ==
    /\ adapter = "DummyAdapter"
    /\ TxIdle
    /\ _table \in Tables
    /\ _operation = "SELECT"
    /\ _data = Null
    /\ _select = <<>>
    /\ _where = <<>>
    /\ _joins = <<>>
    /\ _limit = <<>>
    /\ _offset = <<>>
    /\ _returning = FALSE
    /\ \E identifier \in IdentifierInputs : call = CallOf("_quote", identifier)
    /\ ret = [kind |-> "none"]
    /\ logs = <<>>
    /\ calls = 0
    /\ other = Constructed(<<"users">>)

QuoteNext == Quote \/ QuoteAgain

QuoteSpec == QuoteInit /\ [][QuoteNext]_vars

(* C26: quoting what _quote returned returns it unchanged, for every       *)
(* identifier: plain, dotted, `*`, with a space or a parenthesis, already  *)
(* quoted, or empty.                                                       *)
C26_QuoteIdempotent ==
    [][(ret.kind = "quoted" /\ ret'.kind = "quoted") =>
          (call'.arg = ret.text /\ ret'.text = ret.text)]_vars

\* a dotted identifier was quoted segment by segment and quoted again
C26_Witness ==
    /\ ret.kind = "quoted"
    /\ call.arg = ret.text
    /\ ret.text = <<Q, "a", Q, ".", Q, "a", Q>>

-----------------------------------------------------------------------------
(* The markers of a pooled transaction *)

\* the COMMIT and ROLLBACK calls made on the connection of a transaction() call
Terminal(p) ==
    SelectSeq(clientLog[p],
              LAMBDA e : e.call = "query" /\ e.sql \in {<<"COMMIT">>, <<"ROLLBACK">>})

Begins(p) ==
    SelectSeq(clientLog[p], LAMBDA e : e.call = "query" /\ e.sql = <<"BEGIN">>)

\* the first call on the connection is the one BEGIN, and a release is the
\* last call
BeginFirstReleaseLast(p) ==
    /\ Len(clientLog[p]) > 0 =>
          (clientLog[p][1].call = "query" /\ clientLog[p][1].sql = <<"BEGIN">>)
    /\ Len(Begins(p)) <= 1
    /\ \A r \in Releases(p) : r = Len(clientLog[p]) /\ r > 1

\* C27 as stated: BEGIN first, then exactly one of COMMIT and ROLLBACK
\* before the release, on every path
C27_AsStated ==
    adapter = "PostgresAdapter" =>
        \A p \in Txs :
            client[p] # 0 =>
                /\ BeginFirstReleaseLast(p)
                /\ Len(Terminal(p)) <= 1
                /\ Releases(p) # {} => Len(Terminal(p)) = 1

(* C27: on a pooled PostgresAdapter every transaction() call that got a    *)
(* connection issues BEGIN first on it and releases it last, and before    *)
(* the release it issues COMMIT alone, or ROLLBACK alone, or, when the     *)
(* COMMIT statement itself failed, that COMMIT and then ROLLBACK: never    *)
(* two of the same marker, never a ROLLBACK after a COMMIT that completed, *)
(* never a COMMIT after a ROLLBACK, and nothing between a marker and the   *)
(* release but the ROLLBACK of a failed COMMIT.                            *)
C27_Markers ==
    adapter = "PostgresAdapter" =>
        \A p \in Txs :
            client[p] # 0 =>
                LET terminal == Terminal(p)
                    n == Len(clientLog[p])
                IN  /\ BeginFirstReleaseLast(p)
                    /\ Len(terminal) <= 2
                    /\ Len(terminal) = 2 =>
                          /\ terminal[1].sql = <<"COMMIT">>
                          /\ ~terminal[1].ok
                          /\ terminal[2].sql = <<"ROLLBACK">>
                    /\ Releases(p) # {} =>
                          /\ Len(terminal) >= 1
                          /\ clientLog[p][n - 1] = terminal[Len(terminal)]
                          /\ Len(terminal) = 2 => clientLog[p][n - 2] = terminal[1]
                          /\ (Len(terminal) = 1 /\ terminal[1].sql = <<"COMMIT">>) =>
                                terminal[1].ok
                    /\ \A i \in 1..n :
                          (clientLog[p][i].call = "query"
                           /\ clientLog[p][i].sql \in {<<"COMMIT">>, <<"ROLLBACK">>}
                           /\ i < n) =>
                              \/ clientLog[p][i + 1].call = "release"
                              \/ /\ clientLog[p][i].sql = <<"COMMIT">>
                                 /\ ~clientLog[p][i].ok
                                 /\ clientLog[p][i + 1].sql = <<"ROLLBACK">>

\* a COMMIT failed, a ROLLBACK followed it and the connection was released
C27_Witness ==
    /\ adapter = "PostgresAdapter"
    /\ \E p \in Txs :
          /\ client[p] # 0
          /\ Releases(p) # {}
          /\ Len(Terminal(p)) = 2
          /\ Terminal(p)[1].sql = <<"COMMIT">>
          /\ Len(clientLog[p]) >= 5

-----------------------------------------------------------------------------
(* query() on the pool-backed adapter while transactions are open *)

\* the transaction() calls that hold a connection
Open == {p \in Txs : client[p] # 0 /\ pc[p] # "settled"}

\* the executor of query(): this.client || this.pool (0: the pool)
Executor == IF pooled.client # 0 THEN pooled.client ELSE 0

\* query() on the pool-backed adapter running on the connection of an open
\* transaction
PoolQueryOnClient ==
    /\ adapter = "PostgresAdapter"
    /\ QueriesUpTo(NumTx) + Len(pooled.queries) < MaxQueries
    /\ pooled' = [pooled EXCEPT !.queries =
                     Append(@, [sql |-> Statement,
                                on |-> IF Open = {} THEN 0
                                       ELSE client[CHOOSE p \in Open : TRUE],
                                open |-> Open # {}])]
    /\ UNCHANGED <<logs, pc, client, checkedOut, clientLog, cbState, error, nested,
                   outcome>>
    /\ UNCHANGED <<builderVars, call, ret, calls, adapter, other>>

\* adapter.query(sql) on the pool-backed adapter
PoolQuery ==
    /\ adapter = "PostgresAdapter"
    /\ QueriesUpTo(NumTx) + Len(pooled.queries) < MaxQueries
    /\ pooled' = [pooled EXCEPT !.queries =
                     Append(@, [sql |-> Statement, on |-> Executor,
                                open |-> Open # {}])]
    /\ UNCHANGED <<logs, pc, client, checkedOut, clientLog, cbState, error, nested,
                   outcome>>
    /\ UNCHANGED <<builderVars, call, ret, calls, adapter, other>>

PoolInit == TxInit /\ adapter = "PostgresAdapter"

PoolNext == TxNext \/ PoolQuery

PoolSpec == PoolInit /\ [][PoolNext]_vars

\* the calls a step adds to the connection log of a transaction() call
AddedTo(p) == SubSeq(clientLog'[p], Len(clientLog[p]) + 1, Len(clientLog'[p]))

(* C28: on a pool-backed PostgresAdapter, transaction() calls that are     *)
(* open at the same time hold different connections; every BEGIN, COMMIT,  *)
(* ROLLBACK, callback query and release of a call is made on its own       *)
(* connection, and no step of one call adds anything to the connection of  *)
(* another open call; the adapter's own client field stays null; and a     *)
(* query() on the pool-backed adapter goes to the pool, adds nothing to    *)
(* the connection of any transaction and checks nothing out of the pool.   *)
C28_Isolated ==
    /\ [](/\ pooled.client = 0
          /\ \A p, q \in Open : p # q => client[p] # client[q]
          /\ \A p \in Txs : \A i \in 1..Len(clientLog[p]) :
                clientLog[p][i].on = client[p] /\ client[p] # 0
          /\ \A i \in 1..Len(pooled.queries) : pooled.queries[i].on = 0)
    /\ [][/\ \A p \in Txs : \A q \in Open \ {p} :
                /\ clientLog'[p] # clientLog[p] => clientLog'[q] = clientLog[q]
                /\ \A i \in 1..Len(AddedTo(p)) : AddedTo(p)[i].on # client[q]
                /\ client'[p] # client[p] => client'[p] # client[q]
          /\ pooled'.queries # pooled.queries =>
                /\ clientLog' = clientLog
                /\ client' = client
                /\ checkedOut' = checkedOut
                /\ pc' = pc]_vars

\* two transactions are open on different connections, each has begun, and
\* a query was made on the pool-backed adapter meanwhile
C28_Witness ==
    /\ adapter = "PostgresAdapter"
    /\ Cardinality(Open) >= 2
    /\ \A p \in Open : Len(clientLog[p]) >= 1
    /\ \E i \in 1..Len(pooled.queries) : pooled.queries[i].open

====
